---- MODULE Spec2Model ----
(***************************************************************************)
(* Verification model of notemancy-lsp: the outline builder, the position  *)
(* translator, the wiki-link locator and the document cache of the server. *)
(* Texts are sequences of one-character strings; offsets are 0-based as in *)
(* the Rust source, TLA+ sequence indices are 1-based.                     *)
(***************************************************************************)
EXTENDS Integers, Sequences, FiniteSets, TLC

VARIABLES
    pc,            \* position of the operation under way
    doc,           \* outline builder: the markdown source, one entry per line
    events,        \* outline builder: events the parser has still to deliver
    symbols,       \* collect_symbols: top-level result vector
    current_line,  \* collect_symbols: its line counter
    header_stack,  \* collect_symbols: stack of open HeaderInfo
    in_heading,    \* collect_symbols: inside a heading
    content,       \* text handed to the position / wiki-link functions
    offset,        \* byte offset argument (-1: none)
    position,      \* Position {line, character} (NoValue: none)
    result,        \* value returned by the last function applied
    docs,          \* Backend.docs: HashMap from URI to cached text
    response,      \* reply of the last request handler
    sent,          \* client side: the text last carried to the server, per URI
    query,         \* workspace search: the query of the request
    workspace,     \* workspace search: the files as the listing presents them
    lock,          \* the task that owns the document-cache mutex (0: none)
    tasks          \* handler invocations under way, each with its position

vars == <<pc, doc, events, symbols, current_line, header_stack, in_heading,
          content, offset, position, result, docs, response, sent,
          query, workspace, lock, tasks>>

outline_vars == <<doc, events, symbols, current_line, header_stack, in_heading>>
text_vars == <<content, offset, position, result>>
server_vars == <<docs, response, sent>>
search_vars == <<query, workspace>>
lock_vars == <<lock, tasks>>

NoValue == "NoValue"

\* ------------------------------------------------------------------ bounds
MaxLines == 4
MaxLevel == 3
HeadingTexts == {"a", "b"}

\* ------------------------------------------------ sequence helpers
Last(s) == s[Len(s)]
Front(s) == SubSeq(s, 1, Len(s) - 1)

RECURSIVE SeqsUpTo(_, _)
SeqsUpTo(S, n) ==
    IF n = 0 THEN {<<>>}
    ELSE LET shorter == SeqsUpTo(S, n - 1)
         IN  shorter \cup {Append(s, x) : s \in {t \in shorter : Len(t) = n - 1}, x \in S}

\* ---------------------------------------------------- markdown event stream
\* A source line is an ATX heading, a line of paragraph text or a blank line.
HeadingLine(l, t) == [kind |-> "heading", level |-> l, text |-> t]
TextLine == [kind |-> "text", level |-> 0, text |-> "t"]
BlankLine == [kind |-> "blank", level |-> 0, text |-> ""]

SourceLines ==
    {HeadingLine(l, t) : l \in 1..MaxLevel, t \in HeadingTexts} \cup {TextLine, BlankLine}

Documents == SeqsUpTo(SourceLines, MaxLines)

StartHeading(l) == [type |-> "StartHeading", level |-> l, text |-> ""]
EndHeading(l) == [type |-> "EndHeading", level |-> l, text |-> ""]
Text(t) == [type |-> "Text", level |-> 0, text |-> t]
Other(what) == [type |-> what, level |-> 0, text |-> ""]

\* Events pulldown_cmark's Parser delivers for the lines from i on: a heading
\* is Start, Text, End; consecutive text lines form one paragraph whose lines
\* are separated by SoftBreak; a blank line ends a paragraph and yields no
\* event of its own.
RECURSIVE ParseFrom(_, _, _)
ParseFrom(d, i, inPara) ==
    LET close == IF inPara THEN <<Other("EndParagraph")>> ELSE <<>>
    IN  IF i > Len(d) THEN close
        ELSE CASE d[i].kind = "heading" ->
                    close \o <<StartHeading(d[i].level), Text(d[i].text),
                               EndHeading(d[i].level)>>
                          \o ParseFrom(d, i + 1, FALSE)
               [] d[i].kind = "text" ->
                    (IF inPara THEN <<Other("SoftBreak"), Text(d[i].text)>>
                     ELSE <<Other("StartParagraph"), Text(d[i].text)>>)
                          \o ParseFrom(d, i + 1, TRUE)
               [] OTHER -> close \o ParseFrom(d, i + 1, FALSE)

Parser(d) == ParseFrom(d, 1, FALSE)

\* -------------------------------------------------------- collect_symbols
\* DocumentSymbol as built by collect_symbols: name, range.start.line, children.
NewSymbol(line) == [name |-> <<>>, line |-> line, children |-> <<>>]
HeaderInfo(level, symbol) == [level |-> level, symbol |-> symbol]

\* Pop the top of the stack and attach it to the new top, or to the result.
AttachTop(st) ==
    LET completed == Last(st.stack)
        rest == Front(st.stack)
    IN  IF rest # <<>>
        THEN [stack |-> [rest EXCEPT ![Len(rest)].symbol.children =
                                          Append(@, completed.symbol)],
              symbols |-> st.symbols]
        ELSE [stack |-> rest, symbols |-> Append(st.symbols, completed.symbol)]

\* Variant of the closing loop that keeps a header of equal level open.
RECURSIVE PopClosedStrict(_, _)
PopClosedStrict(st, level) ==
    IF st.stack # <<>> /\ Last(st.stack).level > level
    THEN PopClosedStrict(AttachTop(st), level)
    ELSE st

\* The while-let loop run at a heading start: close every header of level >= level.
RECURSIVE PopClosed(_, _)
PopClosed(st, level) ==
    IF st.stack # <<>> /\ Last(st.stack).level >= level
    THEN PopClosed(AttachTop(st), level)
    ELSE st

\* Variant of the final loop that attaches only the top of the stack.
AttachRemainingOnce(st) ==
    IF st.stack # <<>> THEN AttachTop(st) ELSE st

\* The loop after the event loop: attach whatever is left on the stack.
RECURSIVE AttachRemaining(_)
AttachRemaining(st) ==
    IF st.stack # <<>> THEN AttachRemaining(AttachTop(st)) ELSE st

OutlineInit ==
    /\ doc \in Documents
    /\ events = Parser(doc)
    /\ symbols = <<>>
    /\ current_line = 0
    /\ header_stack = <<>>
    /\ in_heading = FALSE

OnHeadingStart ==
    /\ pc = "events"
    /\ events # <<>>
    /\ Head(events).type = "StartHeading"
    /\ LET st == PopClosed([stack |-> header_stack, symbols |-> symbols],
                           Head(events).level)
       IN  /\ header_stack' = Append(st.stack,
                                     HeaderInfo(Head(events).level, NewSymbol(current_line)))
           /\ symbols' = st.symbols
    /\ in_heading' = TRUE
    /\ events' = Tail(events)
    /\ UNCHANGED <<pc, doc, current_line>>

OnHeadingText ==
    /\ pc = "events"
    /\ events # <<>>
    /\ Head(events).type = "Text"
    /\ in_heading
    /\ header_stack' =
          IF header_stack # <<>>
          THEN [header_stack EXCEPT ![Len(header_stack)].symbol.name =
                                        Append(@, Head(events).text)]
          ELSE header_stack
    /\ events' = Tail(events)
    /\ UNCHANGED <<pc, doc, symbols, current_line, in_heading>>

OnHeadingEnd ==
    /\ pc = "events"
    /\ events # <<>>
    /\ Head(events).type = "EndHeading"
    /\ in_heading' = FALSE
    /\ current_line' = current_line + 1
    /\ events' = Tail(events)
    /\ UNCHANGED <<pc, doc, symbols, header_stack>>

OnOtherEvent ==
    /\ pc = "events"
    /\ events # <<>>
    /\ Head(events).type \notin {"StartHeading", "EndHeading"}
    /\ ~(Head(events).type = "Text" /\ in_heading)
    /\ current_line' = current_line + 1
    /\ events' = Tail(events)
    /\ UNCHANGED <<pc, doc, symbols, header_stack, in_heading>>

OnEndOfStream ==
    /\ pc = "events"
    /\ events = <<>>
    /\ LET st == AttachRemaining([stack |-> header_stack, symbols |-> symbols])
       IN  /\ header_stack' = st.stack
           /\ symbols' = st.symbols
    /\ pc' = "returned"
    /\ UNCHANGED <<doc, events, current_line, in_heading>>

\* ------------------------------------------------------- outline properties
\* The forest in document (pre-)order: entry k describes the k-th node visited
\* and names the index of its parent (0 for a top-level node).
RECURSIVE FlattenForest(_, _, _)
FlattenForest(forest, parent, base) ==
    IF forest = <<>> THEN <<>>
    ELSE LET node == Head(forest)
             own == base + 1
             below == FlattenForest(node.children, own, own)
         IN  <<[name |-> node.name, line |-> node.line, parent |-> parent]>>
                 \o below
                 \o FlattenForest(Tail(forest), parent, own + Len(below))

Flat(forest) == FlattenForest(forest, 0, 0)

\* The headings of the source, in document order, with their zero-based line.
RECURSIVE HeadingsFrom(_, _)
HeadingsFrom(d, i) ==
    IF i > Len(d) THEN <<>>
    ELSE (IF d[i].kind = "heading"
          THEN <<[level |-> d[i].level, text |-> d[i].text, line |-> i - 1]>>
          ELSE <<>>) \o HeadingsFrom(d, i + 1)

HeadingsOf(d) == HeadingsFrom(d, 1)

\* Index of the nearest heading before k of strictly lower level, 0 if none.
NearestLower(levels, k) ==
    LET lower == {j \in 1..(k - 1) : levels[j] < levels[k]}
    IN  IF lower = {} THEN 0 ELSE CHOOSE j \in lower : \A m \in lower : m <= j

\* C2: in the forest collect_symbols returns, every child comes from a
\* heading of strictly greater level than the heading of its parent, at
\* every depth (the k-th node in document order is the k-th heading).
C2_ChildLevelGreater ==
    pc = "returned" =>
        LET flat == Flat(symbols)
            hs == HeadingsOf(doc)
        IN  /\ Len(flat) = Len(hs)
            /\ \A k \in 1..Len(flat) :
                  flat[k].parent # 0 => hs[flat[k].parent].level < hs[k].level

\* A returned forest with a grandchild: nesting happened at two depths.
C2_Witness ==
    /\ pc = "returned"
    /\ \E k \in 1..Len(Flat(symbols)) :
          /\ Flat(symbols)[k].parent # 0
          /\ Flat(symbols)[Flat(symbols)[k].parent].parent # 0

\* C3: the start line of every outline node is the zero-based source line
\* of its heading.
C3_StartLineIsSourceLine ==
    pc = "returned" =>
        LET flat == Flat(symbols)
            hs == HeadingsOf(doc)
        IN  /\ Len(flat) = Len(hs)
            /\ \A k \in 1..Len(flat) : flat[k].line = hs[k].line

\* ------------------------------------------------------------ text helpers
\* s[a..b) with 0-based byte offsets, as the Rust slice &s[a..b].
Slice(s, a, b) == SubSeq(s, a + 1, b)
IsWhitespace(c) == c \in {" ", "\n", "\r"}

\* str::find / str::rfind: 0-based start of the first / last occurrence,
\* -1 standing for None.
Occurrences(s, pat) ==
    {i \in 0..(Len(s) - Len(pat)) : Slice(s, i, i + Len(pat)) = pat}
Min(S) == CHOOSE x \in S : \A y \in S : x <= y
Max(S) == CHOOSE x \in S : \A y \in S : y <= x
find(s, pat) == IF Occurrences(s, pat) = {} THEN -1 ELSE Min(Occurrences(s, pat))
rfind(s, pat) == IF Occurrences(s, pat) = {} THEN -1 ELSE Max(Occurrences(s, pat))

\* str::trim_start / trim_end / trim.
RECURSIVE trim_start(_)
trim_start(s) == IF s # <<>> /\ IsWhitespace(Head(s)) THEN trim_start(Tail(s)) ELSE s
RECURSIVE trim_end(_)
trim_end(s) == IF s # <<>> /\ IsWhitespace(Last(s)) THEN trim_end(Front(s)) ELSE s
trim(s) == trim_end(trim_start(s))

\* str::lines: split at "\n", a final line ending is optional, and a "\r"
\* right before the "\n" belongs to the line ending.
StripCr(s) == IF s # <<>> /\ Last(s) = "\r" THEN Front(s) ELSE s
RECURSIVE lines(_)
lines(s) ==
    IF s = <<>> THEN <<>>
    ELSE LET nl == find(s, <<"\n">>)
         IN  IF nl < 0 THEN <<s>>
             ELSE <<StripCr(Slice(s, 0, nl))>> \o lines(Slice(s, nl + 1, Len(s)))

\* ------------------------------------------------------ position translator
MaxTextLen == 4
PositionChars == {"a", "\n", "\r"}
PositionTexts == SeqsUpTo(PositionChars, MaxTextLen)

Position(line, character) == [line |-> line, character |-> character]

\* The closure compute_position of MarkdownSymbolExtractor::extract_symbols.
compute_position(text, off) ==
    LET before == Slice(text, 0, off)
        line == Cardinality(Occurrences(before, <<"\n">>))
        nl == rfind(before, <<"\n">>)
        last_newline == IF nl < 0 THEN 0 ELSE nl + 1
    IN  Position(line, off - last_newline)

\* The for loop of position_to_offset over content.lines().enumerate().
RECURSIVE position_to_offset_from(_, _, _, _)
position_to_offset_from(ls, i, pos, off) ==
    IF i >= Len(ls) THEN off
    ELSE IF i = pos.line THEN off + pos.character
    ELSE position_to_offset_from(ls, i + 1, pos, off + Len(ls[i + 1]) + 1)

position_to_offset(text, pos) == position_to_offset_from(lines(text), 0, pos, 0)

InitPosition ==
    /\ pc = "text"
    /\ content \in PositionTexts
    /\ offset = -1 /\ position = NoValue /\ result = NoValue

\* offset -> Position, for an offset inside the text.
ComputePosition ==
    /\ pc = "text"
    /\ \E o \in 0..Len(content) :
          /\ offset' = o
          /\ position' = compute_position(content, o)
    /\ pc' = "position"
    /\ UNCHANGED <<content, result>>

\* A Position as a client may send it: any line, any character.
ReceivePosition ==
    /\ pc = "text"
    /\ \E l \in 0..(MaxTextLen + 1), c \in 0..(MaxTextLen + 1) :
          position' = Position(l, c)
    /\ pc' = "position"
    /\ UNCHANGED <<content, offset, result>>

PositionToOffset ==
    /\ pc = "position"
    /\ result' = position_to_offset(content, position)
    /\ pc' = "offset"
    /\ UNCHANGED <<content, offset, position>>

\* -------------------------------------------------------- wiki-link locator
MaxTokens == 5
LinkTokens == {<<"[", "[">>, <<"]", "]">>, <<"[">>, <<"]">>, <<"|">>, <<"a">>, <<" ">>}

RECURSIVE Concat(_)
Concat(ss) == IF ss = <<>> THEN <<>> ELSE Head(ss) \o Concat(Tail(ss))

LinkTexts == {Concat(ts) : ts \in SeqsUpTo(LinkTokens, MaxTokens)}

\* Option<String> returned by extract_wikilink_at_offset; Panicked stands for
\* the slice panic on an offset outside the text.
Some(s) == [kind |-> "Some", virtual_link |-> s]
None == [kind |-> "None"]
Panicked == [kind |-> "Panic"]

\* Variant of the delimiter search that looks for "]]" after the byte at offset.
wikilink_delimiters_after(text, off) ==
    LET start_index == rfind(Slice(text, 0, off), <<"[", "[">>)
        end_index == find(Slice(text, off + 1, Len(text)), <<"]", "]">>)
    IN  IF start_index < 0 \/ end_index < 0 THEN <<>>
        ELSE <<start_index, off + 1 + end_index>>

\* Variant of the delimiter search that lets an unterminated link run to the
\* end of the text.
wikilink_delimiters_to_end(text, off) ==
    LET start_index == rfind(Slice(text, 0, off), <<"[", "[">>)
        end_index == find(Slice(text, off, Len(text)), <<"]", "]">>)
    IN  IF start_index < 0 THEN <<>>
        ELSE IF end_index < 0 THEN <<start_index, Len(text)>>
        ELSE <<start_index, off + end_index>>

\* start_index and end_index of extract_wikilink_at_offset: the last "[["
\* in content[..offset] and the first "]]" in content[offset..]; <<>> when
\* either `?` returns None.
wikilink_delimiters(text, off) ==
    LET start_index == rfind(Slice(text, 0, off), <<"[", "[">>)
        end_index == find(Slice(text, off, Len(text)), <<"]", "]">>)
    IN  IF start_index < 0 \/ end_index < 0 THEN <<>>
        ELSE <<start_index, off + end_index>>

\* Variant of the decomposition that cuts at the last pipe.
virtual_link_last_pipe(link_text) ==
    LET pipe_index == rfind(link_text, <<"|">>)
    IN  IF pipe_index >= 0 THEN trim(Slice(link_text, 0, pipe_index)) ELSE link_text

\* The virtual path of a trimmed link text: the part before the first pipe.
virtual_link(link_text) ==
    LET pipe_index == find(link_text, <<"|">>)
    IN  IF pipe_index >= 0 THEN trim(Slice(link_text, 0, pipe_index)) ELSE link_text

extract_wikilink_at_offset(text, off) ==
    IF off > Len(text) THEN Panicked
    ELSE LET d == wikilink_delimiters(text, off)
         IN  IF d = <<>> THEN None
             ELSE Some(virtual_link(trim(Slice(text, d[1] + 2, d[2]))))

InitLink ==
    /\ pc = "text"
    /\ content \in LinkTexts
    /\ offset = -1 /\ position = NoValue /\ result = NoValue

LocateAtOffset ==
    /\ pc = "text"
    /\ \E o \in 0..(Len(content) + 1) :
          /\ offset' = o
          /\ result' = extract_wikilink_at_offset(content, o)
    /\ pc' = "located"
    /\ UNCHANGED <<content, position>>

\* ----------------------------------------------------------- document cache
MaxCachedLines == 2
Uris == {"u1", "u2"}
CachedLines == {<<"#", " ", "a">>, <<"#", "#", " ", "b">>}

RECURSIVE JoinLines(_)
JoinLines(ls) ==
    IF ls = <<>> THEN <<>>
    ELSE IF Len(ls) = 1 THEN ls[1]
    ELSE ls[1] \o <<"\n">> \o JoinLines(Tail(ls))

\* Texts a client sends in did_open / did_change.
ClientTexts ==
    {JoinLines(ls) : ls \in SeqsUpTo(CachedLines, MaxCachedLines)} \cup {<<"t">>}

\* Content-change lists of a did_change notification: none, one, or two.
ChangeLists ==
    {<<>>} \cup {<<t>> : t \in ClientTexts}
           \cup {<<t, u>> : t \in ClientTexts, u \in {<<>>, <<"t">>}}

EmptyMap == [u \in {} |-> <<>>]
\* An insertion that keeps no other entry of the map.
insert_only(map, key, value) == [k \in {key} |-> value]

\* HashMap::insert.
insert(map, key, value) ==
    [k \in DOMAIN map \cup {key} |-> IF k = key THEN value ELSE map[k]]

\* line.chars().take_while(|&c| c == '#').count()
RECURSIVE heading_chars(_)
heading_chars(line) ==
    IF line # <<>> /\ Head(line) = "#" THEN 1 + heading_chars(Tail(line)) ELSE 0

\* parse_markdown_symbols of parser.rs: one DocumentSymbol per line that
\* starts with '#', all at the top level (children: None).
RECURSIVE parse_markdown_symbols_from(_, _)
parse_markdown_symbols_from(ls, i) ==
    IF i >= Len(ls) THEN <<>>
    ELSE LET line == ls[i + 1]
             n == heading_chars(line)
         IN  (IF n > 0
              THEN <<[name |-> trim(Slice(line, n, Len(line))), detail |-> n,
                      line |-> i, children |-> <<>>]>>
              ELSE <<>>) \o parse_markdown_symbols_from(ls, i + 1)

parse_markdown_symbols(text) == parse_markdown_symbols_from(lines(text), 0)

NoResponse == [request |-> "none"]

InitServer ==
    /\ pc = "serving"
    /\ docs = EmptyMap
    /\ response = NoResponse

did_open(uri, text) ==
    /\ docs' = insert(docs, uri, text)
    /\ response' = NoResponse
    /\ UNCHANGED pc

\* A did_change that drops the notification.
did_change_dropped(uri, content_changes) ==
    /\ docs' = docs
    /\ response' = NoResponse
    /\ UNCHANGED pc

\* A did_change that stores the text of the last content change.
did_change_last(uri, content_changes) ==
    /\ docs' = IF content_changes # <<>>
               THEN insert(docs, uri, content_changes[Len(content_changes)])
               ELSE docs
    /\ response' = NoResponse
    /\ UNCHANGED pc

did_change(uri, content_changes) ==
    /\ docs' = IF content_changes # <<>>
               THEN insert(docs, uri, Head(content_changes))
               ELSE docs
    /\ response' = NoResponse
    /\ UNCHANGED pc

document_symbol(uri) ==
    /\ response' =
          IF uri \in DOMAIN docs
          THEN [request |-> "documentSymbol", uri |-> uri, kind |-> "Nested",
                symbols |-> parse_markdown_symbols(docs[uri])]
          ELSE [request |-> "documentSymbol", uri |-> uri, kind |-> "None",
                symbols |-> <<>>]
    /\ UNCHANGED <<pc, docs>>

TextIdle == content = <<>> /\ offset = -1 /\ position = NoValue /\ result = NoValue
ServerIdle ==
    /\ docs = EmptyMap /\ response = NoResponse /\ sent = EmptyMap
    /\ query = <<>> /\ workspace = <<>>
    /\ lock = 0 /\ tasks = <<>>

InitOutline == pc = "events" /\ OutlineInit /\ TextIdle /\ ServerIdle

NextOutline ==
    \/ OnHeadingStart /\ UNCHANGED <<text_vars, server_vars, search_vars, lock_vars>>
    \/ OnHeadingText /\ UNCHANGED <<text_vars, server_vars, search_vars, lock_vars>>
    \/ OnHeadingEnd /\ UNCHANGED <<text_vars, server_vars, search_vars, lock_vars>>
    \/ OnOtherEvent /\ UNCHANGED <<text_vars, server_vars, search_vars, lock_vars>>
    \/ OnEndOfStream /\ UNCHANGED <<text_vars, server_vars, search_vars, lock_vars>>

SpecOutline == InitOutline /\ [][NextOutline]_vars

OutlineIdle ==
    /\ doc = <<>> /\ events = <<>> /\ symbols = <<>>
    /\ current_line = 0 /\ header_stack = <<>> /\ in_heading = FALSE

InitPositions == InitPosition /\ OutlineIdle /\ ServerIdle

NextPositions ==
    \/ ComputePosition /\ UNCHANGED <<outline_vars, server_vars, search_vars, lock_vars>>
    \/ ReceivePosition /\ UNCHANGED <<outline_vars, server_vars, search_vars, lock_vars>>
    \/ PositionToOffset /\ UNCHANGED <<outline_vars, server_vars, search_vars, lock_vars>>

SpecPositions == InitPositions /\ [][NextPositions]_vars

\* C4: converting an offset of the text to a Position and back with
\* position_to_offset yields the offset again.
C4_RoundTrip ==
    (pc = "offset" /\ offset >= 0) => result = offset

\* Start offset of each line of the text (lines end at "\n").
LineStart(text, l) ==
    IF l = 0 THEN 0
    ELSE LET nls == Occurrences(text, <<"\n">>)
         IN  (CHOOSE i \in nls : Cardinality({j \in nls : j < i}) = l - 1) + 1

\* C5: position_to_offset stays inside the text: on an existing line it is
\* the line's start plus the character clamped to the line's length, beyond
\* the last line it is the length of the text.
C5_InBounds ==
    pc = "offset" =>
        LET ls == lines(content)
        IN  /\ result \in 0..Len(content)
            /\ position.line < Len(ls) =>
                  LET len == Len(ls[position.line + 1])
                      col == IF position.character < len THEN position.character ELSE len
                  IN  result = LineStart(content, position.line) + col
            /\ position.line >= Len(ls) => result = Len(content)

InitLinks == InitLink /\ OutlineIdle /\ ServerIdle

NextLinks ==
    \/ LocateAtOffset /\ UNCHANGED <<outline_vars, server_vars, search_vars, lock_vars>>

SpecLinks == InitLinks /\ [][NextLinks]_vars

\* ------------------------------------------------------- locator properties
Opens(text) == Occurrences(text, <<"[", "[">>)
Closes(text) == Occurrences(text, <<"]", "]">>)
OpensBefore(text, off) == {i \in Opens(text) : i + 2 <= off}
ClosesFrom(text, off) == {j \in Closes(text) : j >= off}

\* The text before the first pipe of a link body, and the text after it.
Pipes(body) == {i \in 1..Len(body) : body[i] = "|"}
BeforePipe(body) == IF Pipes(body) = {} THEN body ELSE SubSeq(body, 1, Min(Pipes(body)) - 1)
AfterPipe(body) == SubSeq(body, Min(Pipes(body)) + 1, Len(body))

\* The text holds exactly one "[[" and one "]]", in this order: one link.
OneLink(text) ==
    /\ Cardinality(Opens(text)) = 1
    /\ Cardinality(Closes(text)) = 1
    /\ Min(Opens(text)) + 2 <= Min(Closes(text))
OneLinkBody(text) == Slice(text, Min(Opens(text)) + 2, Min(Closes(text)))
InsideOneLink(text, off) ==
    /\ OneLink(text)
    /\ Pipes(OneLinkBody(text)) # {}
    /\ Min(Opens(text)) + 2 <= off
    /\ off <= Min(Closes(text))

C7_NoLinkWithoutDelimiters ==
    (pc = "located"
        /\ (OpensBefore(content, offset) = {} \/ ClosesFrom(content, offset) = {})) =>
        /\ result.kind # "Some"
        /\ offset <= Len(content) => result = None

\* An unterminated link: "[[" before the cursor, no "]]" after it.
C7_Witness ==
    /\ pc = "located"
    /\ OpensBefore(content, offset) # {}
    /\ Closes(content) = {}
    /\ offset <= Len(content)
    /\ result = None

\* The body between the delimiters nearest to the offset.
NearestBody(text, off) ==
    Slice(text, Max(OpensBefore(text, off)) + 2, Min(ClosesFrom(text, off)))

C9_TargetNotEmpty ==
    (pc = "located" /\ result.kind = "Some") => result.virtual_link # <<>>

\* The cursor is in plain text between two complete links: the "[[" nearest
\* before it is closed before the cursor, and the "]]" nearest after it
\* belongs to a link that opens at or after the cursor.
BetweenTwoLinks(text, off) ==
    /\ OpensBefore(text, off) # {}
    /\ ClosesFrom(text, off) # {}
    /\ \E j \in Closes(text) :
          /\ Max(OpensBefore(text, off)) + 2 <= j
          /\ j + 2 <= off
    /\ \E i \in Opens(text) :
          /\ off <= i
          /\ i + 2 <= Min(ClosesFrom(text, off))

\* C10: with the cursor in plain text between two complete links no link
\* is returned: the "[[" of one link and the "]]" of the other are never
\* combined.
C10_NoLinkBetweenLinks ==
    (pc = "located" /\ BetweenTwoLinks(content, offset)) => result.kind # "Some"

\* ------------------------------------------- outline of a file on disk
\* The source text of a line and of a document.
\* In the lines of a file the text of a heading or paragraph is a sequence
\* of characters.
Heading(l, chars) == [kind |-> "heading", level |-> l, text |-> chars]
Paragraph(chars) == [kind |-> "text", level |-> 0, text |-> chars]

RenderLine(l) ==
    IF l.kind = "heading" THEN [k \in 1..l.level |-> "#"] \o <<" ">> \o l.text
    ELSE l.text
Render(d) == JoinLines([i \in 1..Len(d) |-> RenderLine(d[i])])

\* Parser::into_offset_iter: the events of Parser(d), each with the start of
\* its source range.  A heading's range starts at its '#', its Text after
\* the "# " prefix (a heading without text has no Text event); a
\* paragraph's range starts at its first line.
RECURSIVE OffsetIterFrom(_, _, _, _)
OffsetIterFrom(d, i, off, para) ==
    LET at(e, o) == [event |-> e, start |-> o]
        close == IF para >= 0 THEN <<at(Other("EndParagraph"), para)>> ELSE <<>>
    IN  IF i > Len(d) THEN close
        ELSE LET next == off + Len(RenderLine(d[i])) + 1
             IN  CASE d[i].kind = "heading" ->
                        close \o <<at(StartHeading(d[i].level), off)>>
                              \o (IF d[i].text = <<>> THEN <<>>
                                  ELSE <<at(Text(d[i].text), off + d[i].level + 1)>>)
                              \o <<at(EndHeading(d[i].level), off)>>
                              \o OffsetIterFrom(d, i + 1, next, -1)
                   [] d[i].kind = "text" ->
                        (IF para >= 0
                         THEN <<at(Other("SoftBreak"), off - 1), at(Text(d[i].text), off)>>
                         ELSE <<at(Other("StartParagraph"), off), at(Text(d[i].text), off)>>)
                              \o OffsetIterFrom(d, i + 1, next, IF para >= 0 THEN para ELSE off)
                   [] OTHER -> close \o OffsetIterFrom(d, i + 1, next, -1)

into_offset_iter(d) == OffsetIterFrom(d, 1, 0, -1)

SymbolKind(level) ==
    CASE level = 1 -> "FILE" [] level = 2 -> "MODULE" [] level = 3 -> "NAMESPACE"
      [] OTHER -> "STRING"

\* The for loop of MarkdownSymbolExtractor::extract_symbols; st holds
\* in_heading, heading_text, heading_start_offset (-1: None) and
\* current_kind.  Of the range of a symbol its start is modelled.
RECURSIVE extract_symbols_loop(_, _, _, _)
extract_symbols_loop(text, evs, st, file_url) ==
    IF evs = <<>> THEN <<>>
    ELSE LET e == Head(evs).event
             start == Head(evs).start
         IN  CASE e.type = "StartHeading" ->
                    extract_symbols_loop(text, Tail(evs),
                        [in_heading |-> TRUE, heading_text |-> <<>>,
                         heading_start_offset |-> -1,
                         current_kind |-> SymbolKind(e.level)], file_url)
               [] e.type = "Text" /\ st.in_heading ->
                    extract_symbols_loop(text, Tail(evs),
                        [st EXCEPT !.heading_text = @ \o e.text,
                                   !.heading_start_offset =
                                       IF @ < 0 THEN start ELSE @], file_url)
               [] e.type = "EndHeading" /\ st.in_heading ->
                    LET start_offset == IF st.heading_start_offset < 0 THEN start
                                        ELSE st.heading_start_offset
                    IN  <<[name |-> st.heading_text, kind |-> st.current_kind,
                           uri |-> file_url,
                           start |-> compute_position(text, start_offset)]>>
                        \o extract_symbols_loop(text, Tail(evs),
                               [st EXCEPT !.in_heading = FALSE,
                                          !.current_kind = "None",
                                          !.heading_start_offset = -1], file_url)
               [] OTHER -> extract_symbols_loop(text, Tail(evs), st, file_url)

\* An extraction that leaves out the headings below level 3.
extract_symbols_to_level_three(d, file_path) ==
    LET all == extract_symbols_loop(Render(d), into_offset_iter(d),
                   [in_heading |-> FALSE, heading_text |-> <<>>,
                    heading_start_offset |-> -1, current_kind |-> "None"], file_path)
    IN  SelectSeq(all, LAMBDA sym : sym.kind # "STRING")

extract_symbols(d, file_path) ==
    extract_symbols_loop(Render(d), into_offset_iter(d),
        [in_heading |-> FALSE, heading_text |-> <<>>,
         heading_start_offset |-> -1, current_kind |-> "None"], file_path)

\* What the file system holds behind a URI when a handler reads it: the URI
\* is no file path, the file cannot be read, or the file has a content.
NotAFilePath == [kind |-> "NotAFilePath"]
Unreadable == [kind |-> "Unreadable"]
Readable(d) == [kind |-> "Readable", source |-> d]
FileSources ==
    {<<>>, <<Heading(1, <<"a">>)>>, <<Heading(1, <<"a">>), Heading(2, <<"b">>)>>,
     <<Paragraph(<<"t">>), Heading(1, <<"a">>)>>}
FileStates == {NotAFilePath, Unreadable} \cup {Readable(d) : d \in FileSources}

\* handle_document_symbol: the outline of the file on disk; the document
\* cache is not consulted.
handle_document_symbol(uri, file) ==
    /\ response' =
          CASE file.kind = "NotAFilePath" ->
                 [request |-> "handle_document_symbol", uri |-> uri,
                  kind |-> "Err", code |-> "InvalidParams", symbols |-> <<>>]
            [] file.kind = "Unreadable" ->
                 [request |-> "handle_document_symbol", uri |-> uri,
                  kind |-> "Err", code |-> "InternalError", symbols |-> <<>>]
            [] OTHER ->
                 LET found == extract_symbols(file.source, uri)
                 IN  [request |-> "handle_document_symbol", uri |-> uri,
                      kind |-> "Nested", code |-> "Ok",
                      symbols |-> [k \in 1..Len(found) |->
                                      [name |-> found[k].name, kind |-> found[k].kind,
                                       range |-> found[k].start, children |-> <<>>]]]
    /\ UNCHANGED <<pc, docs>>

\* Backend overrides no did_close: the notification is accepted and the
\* document cache is left as it is.
did_close(uri) ==
    /\ response' = NoResponse
    /\ UNCHANGED <<pc, docs>>

\* The client's side of the conversation, per URI: the text its most recent
\* notification carried, that the notification carried several texts, or
\* that it closed the document.
Carried(text, by) == [state |-> "open", text |-> text, by |-> by]
Several == [state |-> "several"]
Closed == [state |-> "closed"]

Opened(uri) == uri \in DOMAIN sent /\ sent[uri].state # "closed"

Init ==
    /\ InitServer /\ sent = EmptyMap
    /\ query = <<>> /\ workspace = <<>> /\ lock = 0 /\ tasks = <<>>
    /\ OutlineIdle /\ TextIdle

Next ==
    \/ \E uri \in Uris, text \in ClientTexts :
          /\ did_open(uri, text)
          /\ sent' = insert(sent, uri, Carried(text, "didOpen"))
          /\ UNCHANGED <<outline_vars, text_vars, search_vars, lock_vars>>
    \/ \E uri \in Uris, content_changes \in ChangeLists :
          /\ did_change(uri, content_changes)
          /\ sent' = CASE Len(content_changes) = 0 -> sent
                       [] Len(content_changes) = 1 ->
                            insert(sent, uri, Carried(content_changes[1], "didChange"))
                       [] OTHER -> insert(sent, uri, Several)
          /\ UNCHANGED <<outline_vars, text_vars, search_vars, lock_vars>>
    \/ \E uri \in Uris :
          /\ Opened(uri)
          /\ did_close(uri)
          /\ sent' = insert(sent, uri, Closed)
          /\ UNCHANGED <<outline_vars, text_vars, search_vars, lock_vars>>
    \/ \E uri \in Uris :
          /\ document_symbol(uri)
          /\ UNCHANGED <<sent, outline_vars, text_vars, search_vars, lock_vars>>
    \/ \E uri \in Uris, file \in FileStates :
          /\ handle_document_symbol(uri, file)
          /\ UNCHANGED <<sent, outline_vars, text_vars, search_vars, lock_vars>>

Spec == Init /\ [][Next]_vars

\* The level of every heading line of a text: its number of leading '#'.
HeadingLevels(text) ==
    LET ls == lines(text)
        level(l) == Max({n \in 0..Len(l) : \A k \in 1..n : l[k] = "#"})
        RECURSIVE from(_)
        from(i) == IF i > Len(ls) THEN <<>>
                   ELSE (IF level(ls[i]) > 0 THEN <<level(ls[i])>> ELSE <<>>) \o from(i + 1)
    IN  from(1)

\* C1: the outline returned for a cached document is a nested forest: every
\* heading is a child of the nearest preceding heading of strictly lower
\* level, or a top-level node when there is none, in document order.
C1_OutlineIsNested ==
    (response.request = "documentSymbol" /\ response.uri \in DOMAIN docs) =>
        /\ response.kind = "Nested"
        /\ LET flat == Flat(response.symbols)
               levels == HeadingLevels(docs[response.uri])
           IN  /\ Len(flat) = Len(levels)
               /\ \A k \in 1..Len(flat) : flat[k].parent = NearestLower(levels, k)

\* C13: after close(uri) the document cache holds no entry for uri, and an
\* outline request for uri made before a new open returns an absent result.
C13_ClosedNotCached ==
    \A uri \in DOMAIN sent :
        sent[uri].state = "closed" =>
            /\ uri \notin DOMAIN docs
            /\ (response.request = "documentSymbol" /\ response.uri = uri) =>
                   response.kind = "None"

C15_NeverOpenedIsEmpty ==
    (/\ response.request \in {"documentSymbol", "handle_document_symbol"}
     /\ response.uri \notin DOMAIN sent) =>
        /\ response.kind # "Err"
        /\ response.symbols = <<>>

\* --------------------------------------------------- wiki-link completion
MaxCompletionTokens == 3
CompletionTokens == {<<"[", "[">>, <<"]", "]">>, <<"a">>, <<"\n">>}
CompletionTexts ==
    {Concat(ts) : ts \in SeqsUpTo(CompletionTokens, MaxCompletionTokens)}

\* str::ends_with.
ends_with(s, suffix) ==
    Len(suffix) <= Len(s) /\ Slice(s, Len(s) - Len(suffix), Len(s)) = suffix

\* The Note Index as a handler finds it: the query fails, or it yields the
\* records of the notes, each with a virtual path and possibly a title.
Title(t) == [kind |-> "Some", title |-> t]
NoTitle == [kind |-> "None"]
FileRecord(virtual_path, metadata) ==
    [virtual_path |-> virtual_path, metadata |-> metadata]
NoteRecord == FileRecord(<<"d", "/", "n", ".", "m", "d">>, Title(<<"T">>))
UntitledRecord == FileRecord(<<"m", ".", "m", "d">>, NoTitle)
ImageRecord == FileRecord(<<"p", ".", "p", "n", "g">>, NoTitle)
IndexErr == [kind |-> "Err"]
IndexOk(files) == [kind |-> "Ok", files |-> files]
NoteIndexes ==
    {IndexErr, IndexOk(<<>>), IndexOk(<<NoteRecord>>),
     IndexOk(<<ImageRecord, NoteRecord, UntitledRecord>>)}

\* get_virtual_path: the path with every backslash replaced by a slash.
get_virtual_path(local_path) ==
    [i \in 1..Len(local_path) |->
        IF local_path[i] = "\\" THEN "/" ELSE local_path[i]]

\* get_alias: the title of the metadata, else the file name of the path.
get_alias(file) ==
    IF file.metadata.kind = "Some" THEN file.metadata.title
    ELSE LET slash == rfind(file.virtual_path, <<"/">>)
             file_name == Slice(file.virtual_path, slash + 1, Len(file.virtual_path))
         IN  IF file_name # <<>> THEN file_name ELSE file.virtual_path

\* The two ways a CompletionItem carries its text.
TextEdit(start, end, new_text) ==
    [type |-> "TextEdit", start |-> start, end |-> end, new_text |-> new_text]
InsertText(insert_text) == [type |-> "InsertText", new_text |-> insert_text]
CompletionItem(label, edit) == [label |-> label, edit |-> edit]

CompletionResponse(handler, uri, kind, items) ==
    [request |-> handler, uri |-> uri, kind |-> kind, items |-> items]

\* Keeps the elements of a sequence that satisfy a test, in order.
RECURSIVE SelectIndices(_, _)
SelectIndices(n, keep) ==
    IF n = 0 THEN <<>>
    ELSE SelectIndices(n - 1, keep) \o (IF n \in keep THEN <<n>> ELSE <<>>)

\* end_index of handle_completion that never extends over a closing "]]".
completion_end_at_cursor(line, cursor_index) == cursor_index

\* end_index of handle_completion: past an auto-paired "]]" that follows
\* the cursor, else the cursor.
completion_end_index(line, cursor_index) ==
    IF /\ cursor_index + 2 <= Len(line)
       /\ Slice(line, cursor_index, cursor_index + 2) = <<"]", "]">>
    THEN cursor_index + 2
    ELSE cursor_index

\* handle_completion of handlers/completion.rs.
handle_completion(uri, pos, index) ==
    /\ position' = pos
    /\ response' =
          IF uri \notin DOMAIN docs
          THEN CompletionResponse("handle_completion", uri, "None", <<>>)
          ELSE LET ls == lines(docs[uri])
               IN  IF pos.line >= Len(ls)
                   THEN CompletionResponse("handle_completion", uri, "None", <<>>)
                   ELSE
          LET line == ls[pos.line + 1]
              cursor_index == IF pos.character < Len(line) THEN pos.character
                              ELSE Len(line)
              start_index == rfind(Slice(line, 0, cursor_index), <<"[", "[">>)
              end_index == completion_end_index(line, cursor_index)
              files == IF index.kind = "Ok" THEN index.files ELSE <<>>
              md == SelectIndices(Len(files),
                        {k \in 1..Len(files) :
                            ends_with(files[k].virtual_path, <<".", "m", "d">>)})
              item(file) ==
                  CompletionItem(get_virtual_path(file.virtual_path),
                      TextEdit(Position(pos.line, start_index),
                               Position(pos.line, end_index),
                               <<"[", "[">> \o get_virtual_path(file.virtual_path)
                                   \o <<" ", "|", " ">> \o get_alias(file)
                                   \o <<"]", "]">>))
          IN  IF start_index < 0
              THEN CompletionResponse("handle_completion", uri, "None", <<>>)
              ELSE CompletionResponse("handle_completion", uri, "Array",
                       [k \in 1..Len(md) |-> item(files[md[k]])])
    /\ UNCHANGED <<pc, docs>>

\* read_config of notemancy_core as Backend::completion of main.rs finds it.
ConfigErr == [kind |-> "Err"]
Config(vault_dir) == [kind |-> "Ok", vault_dir |-> vault_dir]
Configs == {ConfigErr, Config(<<"d">>)}

\* Path::strip_prefix(vault_dir), the whole path when it has no such prefix.
strip_prefix(path, base) ==
    IF ends_with(Slice(path, 0, Min({Len(path), Len(base) + 1})), base \o <<"/">>)
    THEN Slice(path, Len(base) + 1, Len(path))
    ELSE path

\* Backend::completion of main.rs.
main_completion(uri, pos, config, index) ==
    /\ position' = pos
    /\ response' =
          IF uri \notin DOMAIN docs
          THEN CompletionResponse("main_completion", uri, "None", <<>>)
          ELSE LET ls == lines(docs[uri])
               IN  IF pos.line >= Len(ls)
                   THEN CompletionResponse("main_completion", uri, "None", <<>>)
                   ELSE
          LET line == ls[pos.line + 1]
              col == pos.character
              files == IF index.kind = "Ok" THEN index.files ELSE <<>>
              rows == SelectIndices(Len(files),
                          {k \in 1..Len(files) : files[k].metadata.kind = "Some"})
              item(file) ==
                  LET relative_vpath == strip_prefix(file.virtual_path, config.vault_dir)
                  IN  CompletionItem(file.metadata.title,
                          TextEdit(pos, pos,
                              relative_vpath \o <<" ", "|", " ">> \o file.metadata.title))
          IN  IF col < 2
              THEN CompletionResponse("main_completion", uri, "None", <<>>)
              ELSE IF col > Len(line)
              THEN CompletionResponse("main_completion", uri, "Panic", <<>>)
              ELSE IF ~ends_with(Slice(line, 0, col), <<"[", "[">>)
              THEN CompletionResponse("main_completion", uri, "None", <<>>)
              ELSE IF config.kind = "Err"
              THEN CompletionResponse("main_completion", uri, "Err", <<>>)
              ELSE CompletionResponse("main_completion", uri, "Array",
                       [k \in 1..Len(rows) |-> item(files[rows[k]])])
    /\ UNCHANGED <<pc, docs>>

\* The place a stable sort gives element k: after the elements that order
\* before it and after the equal ones that precede it.
Place(scored, k, before(_, _)) ==
    1 + Cardinality({j \in 1..Len(scored) :
                        \/ before(scored[j].score, scored[k].score)
                        \/ scored[j].score = scored[k].score /\ j < k})
Ascending(a, b) == a < b
Descending(a, b) == a > b

\* A sort_by_key that leaves the vector as it is.
sort_by_key_unsorted(scored) == scored

\* Vec::sort_by_key(|(score, _)| *score): a stable sort into ascending score.
sort_by_key(scored) ==
    [p \in 1..Len(scored) |->
        scored[CHOOSE k \in 1..Len(scored) : Place(scored, k, Ascending) = p]]

\* Vec::sort_by(|a, b| b.0.cmp(&a.0)): a stable sort into descending score.
sort_by_descending(scored) ==
    [p \in 1..Len(scored) |->
        scored[CHOOSE k \in 1..Len(scored) : Place(scored, k, Descending) = p]]

\* Scores SkimMatcherV2::fuzzy_match may give a candidate (-1: no match).
SkimScores == {-1, 1, 2}

\* Backend::completion of server.rs; scores are the answers of the matcher
\* for the candidates, asked only when the query is not empty.
completion(uri, pos, index, scores) ==
    /\ position' = pos
    /\ response' =
          IF uri \notin DOMAIN docs
          THEN CompletionResponse("completion", uri, "None", <<>>)
          ELSE
          LET ls == lines(docs[uri])
              line == IF pos.line < Len(ls) THEN ls[pos.line + 1] ELSE <<>>
              prefix == Slice(line, 0, Min({pos.character, Len(line)}))
              idx == rfind(prefix, <<"[", "[">>)
              typed == IF idx >= 0 THEN Slice(prefix, idx + 2, Len(prefix)) ELSE <<>>
              records == IF index.kind = "Ok" THEN index.files ELSE <<>>
              titled == SelectIndices(Len(records),
                            {k \in 1..Len(records) : records[k].metadata.kind = "Some"})
              candidates ==
                  [k \in 1..Len(titled) |->
                      LET record == records[titled[k]]
                      IN  CompletionItem(record.metadata.title,
                              InsertText(record.virtual_path \o <<" ", "|", " ">>
                                             \o record.metadata.title))]
              matched == SelectIndices(Len(candidates),
                             {k \in 1..Len(candidates) : scores[k] >= 0})
              scored == sort_by_descending(
                            [k \in 1..Len(matched) |->
                                [score |-> scores[matched[k]],
                                 item |-> candidates[matched[k]]]])
          IN  IF index.kind = "Err"
              THEN CompletionResponse("completion", uri, "Err", <<>>)
              ELSE IF typed # <<>>
              THEN CompletionResponse("completion", uri, "Array",
                       [k \in 1..Len(scored) |-> scored[k].item])
              ELSE CompletionResponse("completion", uri, "Array", candidates)
    /\ UNCHANGED <<pc, docs>>

\* One completion request reaches a server whose cache holds one document
\* or none; the cursor may lie beyond the text.
CompletionUri == "u1"
CursorPositions(text) ==
    {Position(l, c) : l \in 0..Len(lines(text)), c \in 0..(Len(text) + 1)}

InitCompletion ==
    /\ pc = "completion"
    /\ docs \in {EmptyMap} \cup {insert(EmptyMap, CompletionUri, t) : t \in CompletionTexts}
    /\ response = NoResponse /\ sent = EmptyMap
    /\ query = <<>> /\ workspace = <<>> /\ lock = 0 /\ tasks = <<>>
    /\ OutlineIdle /\ TextIdle

CachedOrEmpty == IF CompletionUri \in DOMAIN docs THEN docs[CompletionUri] ELSE <<>>

NextCompletion ==
    \/ \E pos \in CursorPositions(CachedOrEmpty), index \in NoteIndexes :
          /\ response = NoResponse
          /\ handle_completion(CompletionUri, pos, index)
          /\ UNCHANGED <<outline_vars, content, offset, result, sent,
                         search_vars, lock_vars>>
    \/ \E pos \in CursorPositions(CachedOrEmpty), config \in Configs,
          index \in NoteIndexes :
          /\ response = NoResponse
          /\ main_completion(CompletionUri, pos, config, index)
          /\ UNCHANGED <<outline_vars, content, offset, result, sent,
                         search_vars, lock_vars>>
    \/ \E pos \in CursorPositions(CachedOrEmpty), index \in NoteIndexes,
          scores \in [1..2 -> SkimScores] :
          /\ response = NoResponse
          /\ completion(CompletionUri, pos, index, scores)
          /\ UNCHANGED <<outline_vars, content, offset, result, sent,
                         search_vars, lock_vars>>

SpecCompletion == InitCompletion /\ [][NextCompletion]_vars

\* The line of the cached text the cursor of the request is on, the cursor
\* clamped to the end of that line, and a line after a text edit is applied.
CursorOnLine ==
    /\ response.uri \in DOMAIN docs
    /\ position.line < Len(lines(docs[response.uri]))
CursorLine == lines(docs[response.uri])[position.line + 1]
Cursor == Min({position.character, Len(CursorLine)})
ApplyEdit(line, edit) ==
    Slice(line, 0, edit.start.character) \o edit.new_text
        \o Slice(line, edit.end.character, Len(line))
Doubled(line) == Cardinality(Occurrences(line, <<"]", "]", "]", "]">>))
ClosedAfterCursor ==
    Cursor + 2 <= Len(CursorLine) /\ CursorLine[Cursor + 1] = "]"
                                  /\ CursorLine[Cursor + 2] = "]"
NearestOpenBefore == Max({i \in OpensBefore(CursorLine, Cursor) : i + 2 <= Cursor})

\* The span the claim describes, for one text edit.
SpanFromOpenToClose(edit) ==
    /\ edit.start = Position(position.line, NearestOpenBefore)
    /\ edit.end = Position(position.line,
                           IF ClosedAfterCursor THEN Cursor + 2 ELSE Cursor)
NoNewDoubled(edit) == Doubled(ApplyEdit(CursorLine, edit)) <= Doubled(CursorLine)

\* C11: the replacement span of every completion candidate starts at the
\* nearest "[[" before the cursor on the cursor's line and ends at cursor+2
\* when "]]" follows the cursor, else at the cursor; applying the edit
\* leaves no duplicated "]]" in the line.
C11_ReplacementSpan ==
    (response.request \in {"handle_completion", "main_completion"}
        /\ response.kind = "Array") =>
        \A k \in 1..Len(response.items) :
            /\ SpanFromOpenToClose(response.items[k].edit)
            /\ NoNewDoubled(response.items[k].edit)

\* C11 as the code has it: handle_completion replaces from the nearest "[["
\* through an auto-paired "]]"; Backend::completion of main.rs replaces the
\* empty span at the cursor; neither edit adds a doubled "]]" to the line.
C11_SpanOfEachHandler ==
    (response.request \in {"handle_completion", "main_completion"}
        /\ response.kind = "Array") =>
        \A k \in 1..Len(response.items) :
            /\ response.request = "handle_completion" =>
                   SpanFromOpenToClose(response.items[k].edit)
            /\ response.request = "main_completion" =>
                   /\ response.items[k].edit.start = position
                   /\ response.items[k].edit.end = position
            /\ NoNewDoubled(response.items[k].edit)

\* handle_completion offers a candidate while "]]" follows the cursor and
\* text was typed after the "[[".
C11_Witness ==
    /\ response.request = "handle_completion"
    /\ response.kind = "Array"
    /\ response.items # <<>>
    /\ ClosedAfterCursor
    /\ NearestOpenBefore + 2 < Cursor

\* The cursor of the request is immediately preceded by "[[".
ImmediatelyAfterOpen ==
    /\ CursorOnLine
    /\ Cursor >= 2
    /\ CursorLine[Cursor - 1] = "[" /\ CursorLine[Cursor] = "["

\* C12: a completion request whose cursor is not immediately preceded by
\* "[[" returns no completions (absent or empty result) and no error,
\* whatever the Note Index contains.
C12_NoCompletionWithoutTrigger ==
    (response.request \in {"handle_completion", "main_completion", "completion"}
        /\ ~ImmediatelyAfterOpen) =>
        \/ response.kind = "None"
        \/ response.kind = "Array" /\ response.items = <<>>

\* ------------------------------------------------- document-cache mutex
\* Handlers run as concurrent tasks.  A task is the handler it runs and the
\* steps it has still to take: "lock" acquires the mutex of the document
\* cache, "unlock" is the point where its guard is dropped, "insert" and
\* "get" use the map, "outline" computes an outline, "index" queries the
\* Note Index or database, "file" reads a file.
MaxTasks == 2
Handlers ==
    {"did_open", "document_symbol", "handle_completion", "main_completion",
     "completion", "hover"}
Work == {"outline", "index", "file"}

\* The steps of a handler up to its lookup in the cache.
Program(handler) ==
    IF handler = "did_open" THEN <<"lock", "insert", "unlock">>
    ELSE <<"lock", "get">>

\* The steps after the lookup found the text.
OnSome(handler) ==
    CASE handler = "document_symbol" -> <<"outline", "unlock">>
      [] handler = "handle_completion" -> <<"index", "unlock">>
      [] handler = "main_completion" -> <<"file", "index", "unlock">>
      [] handler = "completion" -> <<"unlock", "index">>
      [] handler = "hover" -> <<"unlock", "file">>

\* The steps after the lookup found nothing.
OnNone(handler) == <<"unlock">>

InitLocks ==
    /\ pc = "tasks"
    /\ lock = 0 /\ tasks = <<>>
    /\ docs \in {EmptyMap, insert(EmptyMap, CompletionUri, <<"t">>)}
    /\ response = NoResponse /\ sent = EmptyMap
    /\ query = <<>> /\ workspace = <<>>
    /\ OutlineIdle /\ TextIdle

Receive(handler) ==
    /\ Len(tasks) < MaxTasks
    /\ tasks' = Append(tasks, [handler |-> handler, todo |-> Program(handler)])
    /\ UNCHANGED <<pc, lock, docs>>

Running(i, step) == i \in 1..Len(tasks) /\ tasks[i].todo # <<>> /\ Head(tasks[i].todo) = step

Lock(i) ==
    /\ Running(i, "lock")
    /\ lock = 0
    /\ lock' = i
    /\ tasks' = [tasks EXCEPT ![i].todo = Tail(@)]
    /\ UNCHANGED <<pc, docs>>

Unlock(i) ==
    /\ Running(i, "unlock")
    /\ lock' = 0
    /\ tasks' = [tasks EXCEPT ![i].todo = Tail(@)]
    /\ UNCHANGED <<pc, docs>>

Insert(i) ==
    /\ Running(i, "insert")
    /\ docs' = insert(docs, CompletionUri, <<"t">>)
    /\ tasks' = [tasks EXCEPT ![i].todo = Tail(@)]
    /\ UNCHANGED <<pc, lock>>

Get(i) ==
    /\ Running(i, "get")
    /\ tasks' = [tasks EXCEPT ![i].todo =
                    IF CompletionUri \in DOMAIN docs THEN OnSome(tasks[i].handler)
                    ELSE OnNone(tasks[i].handler)]
    /\ UNCHANGED <<pc, lock, docs>>

DoWork(i) ==
    /\ \E step \in Work : Running(i, step)
    /\ tasks' = [tasks EXCEPT ![i].todo = Tail(@)]
    /\ UNCHANGED <<pc, lock, docs>>

NextLocks ==
    \/ \E handler \in Handlers :
          Receive(handler)
          /\ UNCHANGED <<outline_vars, text_vars, response, sent, search_vars>>
    \/ \E i \in 1..MaxTasks :
          Lock(i) /\ UNCHANGED <<outline_vars, text_vars, response, sent, search_vars>>
    \/ \E i \in 1..MaxTasks :
          Unlock(i) /\ UNCHANGED <<outline_vars, text_vars, response, sent, search_vars>>
    \/ \E i \in 1..MaxTasks :
          Insert(i) /\ UNCHANGED <<outline_vars, text_vars, response, sent, search_vars>>
    \/ \E i \in 1..MaxTasks :
          Get(i) /\ UNCHANGED <<outline_vars, text_vars, response, sent, search_vars>>
    \/ \E i \in 1..MaxTasks :
          DoWork(i) /\ UNCHANGED <<outline_vars, text_vars, response, sent, search_vars>>

SpecLocks == InitLocks /\ [][NextLocks]_vars

\* C16: no handler holds the document-cache lock while it computes an
\* outline, queries the Note Index or database, or reads a file; the lock is
\* held only for the lookup and copy of the cached text.
C16_LockOnlyForLookup ==
    \A i \in 1..Len(tasks) :
        (lock = i /\ tasks[i].todo # <<>>) => Head(tasks[i].todo) \notin Work

\* ------------------------------------------------ workspace symbol search
MaxFiles == 2
Queries ==
    {<<>>, <<" ">>, <<"h", "d">>, <<"H", "d">>, <<"x", "z">>, <<"n", "g">>,
     <<"h">>, <<"d">>, <<"d", "n">>, <<"n", "d">>, <<"i", "n", "g">>}

\* char::to_lowercase, for the letters that occur.
LowerChar(c) == CASE c = "H" -> "h" [] c = "E" -> "e" [] OTHER -> c
to_lowercase(s) == [i \in 1..Len(s) |-> LowerChar(s[i])]

\* str::contains.
contains(s, pat) == Occurrences(s, pat) # {}

\* An entry of the listing of the workspace: its path, whether
\* fs::canonicalize succeeds on it, and what reading it gives.
Entry(path, canonical, file) ==
    [path |-> path, canonical |-> canonical, file |-> file]
HeadingMd ==
    Readable(<<Heading(1, <<"H", "e", "a", "d", "i", "n", "g">>),
               Heading(2, <<"H", "d">>)>>)
EndingMd ==
    Readable(<<Heading(1, <<"E", "n", "d", "i", "n", "g">>), Paragraph(<<"t">>),
               Heading(2, <<"H", "e", "a", "d", "i", "n", "g">>)>>)
Entries ==
    {Entry(<<"1", ".", "m", "d">>, TRUE, HeadingMd),
     Entry(<<"1", ".", "m", "d">>, FALSE, HeadingMd),
     Entry(<<"2", ".", "m", "d">>, TRUE, EndingMd),
     Entry(<<"3", ".", "m", "d">>, TRUE, Unreadable),
     Entry(<<"4", ".", "p", "n", "g">>, TRUE, HeadingMd)}
Listings == SeqsUpTo(Entries, MaxFiles)

\* Names of the headings of the files, the names a matcher is asked about.
SymbolNames ==
    {<<"H", "e", "a", "d", "i", "n", "g">>, <<"H", "d">>,
     <<"E", "n", "d", "i", "n", "g">>}

SymbolInformation(name, uri, start) == [name |-> name, uri |-> uri, start |-> start]

\* Flattens a sequence of sequences.
RECURSIVE flatten(_)
flatten(ss) == IF ss = <<>> THEN <<>> ELSE Head(ss) \o flatten(Tail(ss))

\* parse_markdown_symbols of main.rs: a line that starts with '#' and has
\* a title after its '#'s gives a symbol.
RECURSIVE main_parse_markdown_symbols_from(_, _)
main_parse_markdown_symbols_from(ls, line_num) ==
    IF line_num >= Len(ls) THEN <<>>
    ELSE LET line == ls[line_num + 1]
             level == heading_chars(line)
             title == trim(Slice(line, level, Len(line)))
         IN  (IF level > 0 /\ title # <<>>
              THEN <<[name |-> title, detail |-> level, line |-> line_num,
                      children |-> <<>>]>>
              ELSE <<>>)
             \o main_parse_markdown_symbols_from(ls, line_num + 1)

main_parse_markdown_symbols(text) ==
    main_parse_markdown_symbols_from(lines(text), 0)

\* extract_workspace_symbols_from_file of main.rs: no symbols when the file
\* cannot be read.
extract_workspace_symbols_from_file(entry) ==
    IF entry.file.kind # "Readable" THEN <<>>
    ELSE LET doc_symbols == main_parse_markdown_symbols(Render(entry.file.source))
         IN  [k \in 1..Len(doc_symbols) |->
                 SymbolInformation(doc_symbols[k].name, entry.path,
                                   Position(doc_symbols[k].line, 0))]

\* collect_markdown_files of main.rs over a flat vault: the entries with
\* extension md; of the entries that canonicalize to the same path the
\* first, and every entry that does not canonicalize.
collect_markdown_files(listing) ==
    LET keep == {k \in 1..Len(listing) :
                    /\ ends_with(listing[k].path, <<".", "m", "d">>)
                    /\ listing[k].canonical =>
                           ~\E j \in 1..(k - 1) :
                               /\ listing[j].canonical
                               /\ ends_with(listing[j].path, <<".", "m", "d">>)
                               /\ listing[j].path = listing[k].path}
        kept == SelectIndices(Len(listing), keep)
    IN  [k \in 1..Len(kept) |-> listing[kept[k]]]

\* fuzzy_match of main.rs: the loop over the characters of the query
\* (-1: None).
RECURSIVE fuzzy_match_loop(_, _, _, _)
fuzzy_match_loop(q, candidate_chars, pos_candidate, total_gap) ==
    IF q = <<>> THEN total_gap
    ELSE LET hits == {i \in pos_candidate..(Len(candidate_chars) - 1) :
                         candidate_chars[i + 1] = Head(q)}
         IN  IF hits = {} THEN -1
             ELSE fuzzy_match_loop(Tail(q), candidate_chars, Min(hits) + 1,
                                   total_gap + (Min(hits) - pos_candidate))

fuzzy_match(q, candidate) ==
    IF trim(q) = <<>> THEN 0
    ELSE fuzzy_match_loop(to_lowercase(q), to_lowercase(candidate), 0, 0)

\* The symbols of each entry and the scores of each query and name,
\* tabulated once.
MainSymbolsOf == [entry \in Entries |-> extract_workspace_symbols_from_file(entry)]
FuzzyScore == [q \in Queries, name \in SymbolNames |-> fuzzy_match(q, name)]

\* A deduplication pass that removes nothing.
dedup_nothing(filtered, seen) == filtered

\* The deduplication pass of Backend::symbol of main.rs: an entry is kept
\* when seen.insert(key) reports its key as new.
RECURSIVE dedup(_, _)
dedup(filtered, seen) ==
    IF filtered = <<>> THEN <<>>
    ELSE LET sym == Head(filtered)
             key == <<sym.name, sym.uri, sym.start.line>>
         IN  IF key \in seen THEN dedup(Tail(filtered), seen)
             ELSE <<sym>> \o dedup(Tail(filtered), seen \cup {key})

\* The reply of a workspace symbol handler, and the vectors it built on the
\* way: the candidates, the scored matches after sorting, and the list
\* handed to the last stage.
SearchResponse(handler, kind, found) ==
    [request |-> handler, kind |-> kind, symbols |-> found]
Ranking(candidates, matches, filtered) ==
    [all_symbols |-> candidates, matches |-> matches, filtered |-> filtered]
Scored(score, sym) == [score |-> score, sym |-> sym]
Syms(scored) == [k \in 1..Len(scored) |-> scored[k].sym]

\* What Backend::symbol of main.rs computes from the query over a listing of
\* the vault: the candidates, the sorted matches, the ranked list and the
\* deduplicated list it returns.
main_symbol_found(q, listing) ==
    LET files == collect_markdown_files(listing)
        all_symbols ==
            flatten([k \in 1..Len(files) |->
                        MainSymbolsOf[files[k]]])
        matched == SelectIndices(Len(all_symbols),
                       {k \in 1..Len(all_symbols) :
                           FuzzyScore[q, all_symbols[k].name] >= 0})
        matches == sort_by_key(
                       [k \in 1..Len(matched) |->
                           Scored(FuzzyScore[q, all_symbols[matched[k]].name],
                                  all_symbols[matched[k]])])
        filtered == IF trim(q) = <<>> THEN all_symbols ELSE Syms(matches)
    IN  [all_symbols |-> all_symbols,
         matches |-> IF trim(q) = <<>> THEN <<>> ELSE matches,
         filtered |-> filtered,
         deduped |-> dedup(filtered, {})]

\* Backend::symbol of main.rs.
main_symbol(q, config) ==
    LET found == main_symbol_found(q, workspace)
    IN  /\ response' =
              IF config.kind = "Err" THEN SearchResponse("main_symbol", "Err", <<>>)
              ELSE SearchResponse("main_symbol", "Ok", found.deduped)
        /\ result' =
              IF config.kind = "Err" THEN Ranking(<<>>, <<>>, <<>>)
              ELSE Ranking(found.all_symbols, found.matches, found.filtered)
        /\ UNCHANGED <<pc, query, workspace>>

\* The symbols handle derives from an entry: none unless it is a readable
\* .md file, else those of MarkdownSymbolExtractor.
extracted_symbols(entry) ==
    IF ~ends_with(entry.path, <<".", "m", "d">>) \/ entry.file.kind # "Readable"
    THEN <<>>
    ELSE LET found == extract_symbols(entry.file.source, entry.path)
         IN  [k \in 1..Len(found) |->
                 SymbolInformation(found[k].name, found[k].uri, found[k].start)]
ExtractedSymbolsOf == [entry \in Entries |-> extracted_symbols(entry)]

\* The closure handle applies to each file of the tree: the symbols of the
\* file whose lower-cased name contains the lower-cased query.
filtered_symbols(lowered, entry) ==
    LET file_symbols == ExtractedSymbolsOf[entry]
        keep == SelectIndices(Len(file_symbols),
                    {k \in 1..Len(file_symbols) :
                        contains(to_lowercase(file_symbols[k].name), lowered)})
    IN  [k \in 1..Len(keep) |-> file_symbols[keep[k]]]

\* A search that gives up at the first file it cannot read: the symbols of
\* the files before it only.
RECURSIVE handle_found_until_unreadable(_, _)
handle_found_until_unreadable(q, files) ==
    IF files = <<>> \/ Head(files).file.kind # "Readable" THEN <<>>
    ELSE filtered_symbols(to_lowercase(q), Head(files))
             \o handle_found_until_unreadable(q, Tail(files))

\* What handle computes from the query over the file tree: the per-file
\* vectors flattened in the order of the tree.
handle_found(q, files) ==
    flatten([k \in 1..Len(files) |-> filtered_symbols(to_lowercase(q), files[k])])

\* handle of handlers/workspace_symbol.rs.
handle(q, index_ok) ==
    LET files == IF index_ok THEN workspace ELSE <<>>
        found == handle_found(q, files)
    IN  /\ response' = SearchResponse("handle", "Ok", found)
        /\ result' = Ranking(flatten([k \in 1..Len(files) |->
                                         ExtractedSymbolsOf[files[k]]]),
                             <<>>, found)
        /\ UNCHANGED <<pc, query, workspace>>

\* The symbols Backend::symbol of server.rs derives from an entry: none when
\* it cannot be read.
parsed_symbols(entry) ==
    IF entry.file.kind # "Readable" THEN <<>>
    ELSE LET found == parse_markdown_symbols(Render(entry.file.source))
         IN  [k \in 1..Len(found) |->
                 SymbolInformation(found[k].name, entry.path,
                                   Position(found[k].line, 0))]
ParsedSymbolsOf == [entry \in Entries |-> parsed_symbols(entry)]

\* What Backend::symbol of server.rs computes from the query over the paths
\* of the Note Index; scores are the answers of SkimMatcherV2 for the names,
\* asked only when the query is not empty.
symbol_found(q, paths, scores) ==
    LET results == flatten([k \in 1..Len(paths) |-> ParsedSymbolsOf[paths[k]]])
        matched == SelectIndices(Len(results),
                       {k \in 1..Len(results) : scores[results[k].name] >= 0})
        scored == sort_by_descending(
                      [k \in 1..Len(matched) |->
                          Scored(scores[results[matched[k]].name], results[matched[k]])])
    IN  [all_symbols |-> results,
         matches |-> IF q # <<>> THEN scored ELSE <<>>,
         filtered |-> IF q # <<>> THEN Syms(scored) ELSE results]

\* Backend::symbol of server.rs.
symbol(q, paths_ok, scores) ==
    LET found == symbol_found(q, workspace, scores)
    IN  /\ response' =
              IF ~paths_ok THEN SearchResponse("symbol", "Err", <<>>)
              ELSE SearchResponse("symbol", "Ok", found.filtered)
        /\ result' =
              IF ~paths_ok THEN Ranking(<<>>, <<>>, <<>>)
              ELSE Ranking(found.all_symbols, found.matches, found.filtered)
        /\ UNCHANGED <<pc, query, workspace>>

\* One workspace/symbol request over a listing of the workspace.  A
\* directory read may present a path twice; the file tree of the Note Index
\* presents each path once.
NoRepeatedPath(listing) ==
    \A j, k \in 1..Len(listing) : listing[j].path = listing[k].path => j = k

InitSearch ==
    /\ pc = "search"
    /\ query \in Queries /\ workspace \in Listings
    /\ docs = EmptyMap /\ response = NoResponse /\ sent = EmptyMap
    /\ lock = 0 /\ tasks = <<>>
    /\ OutlineIdle /\ TextIdle

NextSearch ==
    \/ \E config \in Configs :
          /\ response = NoResponse
          /\ main_symbol(query, config)
          /\ UNCHANGED <<outline_vars, content, offset, position, docs, sent, lock_vars>>
    \/ \E index_ok \in BOOLEAN :
          /\ response = NoResponse
          /\ NoRepeatedPath(workspace)
          /\ handle(query, index_ok)
          /\ UNCHANGED <<outline_vars, content, offset, position, docs, sent, lock_vars>>
    \/ \E paths_ok \in BOOLEAN, scores \in [SymbolNames -> SkimScores] :
          /\ response = NoResponse
          /\ NoRepeatedPath(workspace)
          /\ symbol(query, paths_ok, scores)
          /\ UNCHANGED <<outline_vars, content, offset, position, docs, sent, lock_vars>>

SpecSearch == InitSearch /\ [][NextSearch]_vars

\* q is a subsequence of c: its characters occur in c in order.
RECURSIVE IsSubsequence(_, _)
IsSubsequence(q, c) ==
    \/ q = <<>>
    \/ \E i \in 1..Len(c) :
          c[i] = Head(q) /\ IsSubsequence(Tail(q), SubSeq(c, i + 1, Len(c)))

Range(f) == {f[k] : k \in DOMAIN f}
Answered(handlers) == response.request \in handlers /\ response.kind = "Ok"

\* C17: with a non-empty query the search keeps a candidate if and only if
\* the lower-cased query is a subsequence of the lower-cased candidate name.
C17_KeepsSubsequences ==
    (Answered({"main_symbol", "handle"}) /\ query # <<>>) =>
        \A sym \in Range(result.all_symbols) :
            sym \in Range(response.symbols) <=>
                IsSubsequence(to_lowercase(query), to_lowercase(sym.name))

\* The places in c of the leftmost match of q, character by character.
RECURSIVE MatchedAt(_, _, _)
MatchedAt(q, c, from) ==
    IF q = <<>> THEN <<>>
    ELSE LET at == Min({i \in from..Len(c) : c[i] = Head(q)})
         IN  <<at>> \o MatchedAt(Tail(q), c, at + 1)

\* The candidate characters skipped between consecutive matched characters.
InnerGaps(q, c) ==
    LET at == MatchedAt(q, c, 1)
    IN  Cardinality({i \in at[1]..at[Len(at)] : i \notin Range(at)})

\* C18: the score of a matching candidate is the number of candidate
\* characters skipped between consecutive matched query characters;
\* characters before the first matched character do not count.
C18_ScoreIsInnerGaps ==
    (Answered({"main_symbol"}) /\ trim(query) # <<>>) =>
        \A m \in Range(result.matches) :
            m.score = InnerGaps(to_lowercase(query), to_lowercase(m.sym.name))

\* The matches of one score, and the candidates that got that score.
MatchesScored(v) == Syms(SelectSeq(result.matches, LAMBDA m : m.score = v))
CandidatesScored(v) ==
    SelectSeq(result.all_symbols,
              LAMBDA c : \E m \in Range(result.matches) : m.sym = c /\ m.score = v)
TiesKeepOrder ==
    \A m \in Range(result.matches) : MatchesScored(m.score) = CandidatesScored(m.score)
AscendingScores ==
    \A i, j \in 1..Len(result.matches) :
        i < j => result.matches[i].score <= result.matches[j].score
DescendingScores ==
    \A i, j \in 1..Len(result.matches) :
        i < j => result.matches[i].score >= result.matches[j].score

\* C19: the results for a non-empty query are in ascending score order, and
\* candidates with equal score keep the relative order they had before
\* sorting.
C19_AscendingStable ==
    (Answered({"main_symbol", "symbol"}) /\ query # <<>>) =>
        AscendingScores /\ TiesKeepOrder

\* C19 as the code has it: Backend::symbol of main.rs ranks by ascending gap
\* score, Backend::symbol of server.rs by descending matcher score; both
\* sorts are stable, and the reply of main.rs is in that order.
C19_OrderOfEachHandler ==
    (Answered({"main_symbol", "symbol"}) /\ query # <<>>) =>
        /\ TiesKeepOrder
        /\ response.request = "symbol" =>
               DescendingScores /\ response.symbols = Syms(result.matches)
        /\ response.request = "main_symbol" =>
               /\ AscendingScores
               /\ \A i, j \in 1..Len(response.symbols) :
                      i < j => fuzzy_match(query, response.symbols[i].name)
                                   <= fuzzy_match(query, response.symbols[j].name)

\* Backend::symbol of main.rs ranked candidates of which two tie and two
\* changed places.
C19_Witness ==
    /\ Answered({"main_symbol"}) /\ trim(query) # <<>>
    /\ \E i, j \in 1..Len(result.matches) :
          /\ i < j
          /\ result.matches[i].score = result.matches[j].score
          /\ result.matches[i].sym # result.matches[j].sym
    /\ \E i, j \in 1..Len(result.all_symbols) :
          /\ i < j
          /\ fuzzy_match(query, result.all_symbols[i].name)
                 > fuzzy_match(query, result.all_symbols[j].name)
          /\ fuzzy_match(query, result.all_symbols[j].name) >= 0

Key(sym) == <<sym.name, sym.uri, sym.start.line>>
FirstOfEachKey(list) ==
    LET first == {k \in 1..Len(list) : \A j \in 1..(k - 1) : Key(list[j]) # Key(list[k])}
        kept == SelectIndices(Len(list), first)
    IN  [p \in 1..Len(kept) |-> list[kept[p]]]

Finished(run, k, found) == [run |-> run, file |-> k, found |-> found]

\* The outputs of one invocation, in the order the workers finished.
OutputsOf(run) ==
    LET idx == SelectIndices(Len(tasks), {j \in 1..Len(tasks) : tasks[j].run = run})
    IN  [j \in 1..Len(idx) |-> tasks[idx[j]]]

\* A collection that takes the outputs in the order the workers finished.
par_iter_collect_as_finished(done) ==
    flatten([k \in 1..Len(done) |-> done[k].found])

\* par_iter().filter_map(..).collect() followed by the flattening: the
\* vector holds the outputs in the order of the items of the tree, whatever
\* the order the workers finished in.
par_iter_collect(done) ==
    flatten([k \in 1..Len(done) |->
                done[CHOOSE j \in 1..Len(done) : done[j].file = k].found])

Run == IF pc = "first" THEN 1 ELSE 2

\* The reply of an invocation: the first is kept in result, the second in
\* response.
Reply(reply) ==
    /\ pc' = IF pc = "first" THEN "second" ELSE "done"
    /\ result' = IF pc = "first" THEN reply ELSE result
    /\ response' = IF pc = "first" THEN response ELSE reply

\* The second invocation is of the handler that served the first.
SameHandler(handler) ==
    /\ pc \in {"first", "second"}
    /\ pc = "second" => result.request = handler

\* A worker finishes the closure of handle for one file of the tree.
Worker(k) ==
    /\ SameHandler("handle")
    /\ k \in 1..Len(workspace)
    /\ \A j \in 1..Len(tasks) : ~(tasks[j].run = Run /\ tasks[j].file = k)
    /\ tasks' = Append(tasks,
                    Finished(Run, k,
                             filtered_symbols(to_lowercase(query), workspace[k])))
    /\ UNCHANGED <<pc, query, workspace, result, response>>

\* Every file of the tree is done: handle flattens the outputs and returns.
HandleReturns ==
    /\ SameHandler("handle")
    /\ Len(OutputsOf(Run)) = Len(workspace)
    /\ Reply(SearchResponse("handle", "Ok", par_iter_collect(OutputsOf(Run))))
    /\ UNCHANGED <<query, workspace, tasks>>

\* Backend::symbol of main.rs: one blocking task goes through the files in
\* the order of the listing.
MainSymbolReturns ==
    /\ SameHandler("main_symbol")
    /\ OutputsOf(Run) = <<>>
    /\ Reply(SearchResponse("main_symbol", "Ok",
                            main_symbol_found(query, workspace).deduped))
    /\ UNCHANGED <<query, workspace, tasks>>

\* Two invocations with the same query over the same files: the listing of
\* the files, the Note Index and the configuration answer the same in both.
InitWorkers ==
    /\ pc = "first"
    /\ query \in Queries /\ workspace \in Listings
    /\ docs = EmptyMap /\ response = NoResponse /\ sent = EmptyMap
    /\ lock = 0 /\ tasks = <<>>
    /\ OutlineIdle /\ TextIdle

NextWorkers ==
    \/ \E k \in 1..MaxFiles :
          Worker(k)
          /\ UNCHANGED <<outline_vars, content, offset, position, docs, sent, lock>>
    \/ HandleReturns
          /\ UNCHANGED <<outline_vars, content, offset, position, docs, sent, lock>>
    \/ MainSymbolReturns
          /\ UNCHANGED <<outline_vars, content, offset, position, docs, sent, lock>>

SpecWorkers == InitWorkers /\ [][NextWorkers]_vars

\* C21: workspace search is deterministic: for fixed documents and a fixed
\* query two invocations return the same entries in the same order, whatever
\* the order in which the parallel per-file workers finish.
C21_SameOrderedResult ==
    pc = "done" => response = result

\* Two invocations of handle over two files with headings, the workers
\* finishing in one order in the first and in the other in the second.
C21_Witness ==
    /\ pc = "done" /\ response.request = "handle"
    /\ Len(workspace) = 2 /\ Len(tasks) = 4
    /\ tasks[1].file # tasks[3].file
    /\ \A j \in 1..4 : tasks[j].found # <<>>
    /\ workspace[1] # workspace[2]

\* ------------------------------------------------ per-file failures
\* The entries of a listing whose file can be read, in their order.
ReadableOnly(listing) ==
    LET idx == SelectIndices(Len(listing),
                   {k \in 1..Len(listing) : listing[k].file.kind = "Readable"})
    IN  [k \in 1..Len(idx) |-> listing[idx[k]]]

\* C22: in a workspace search a file that cannot be read is skipped and the
\* search still succeeds: whenever the configuration and the Note Index
\* answer, each handler replies Ok with the result of the same search over
\* only the readable files.
C22_UnreadableSkipped ==
    [][/\ main_symbol(query, Config(<<"d">>)) =>
             response' = SearchResponse("main_symbol", "Ok",
                             main_symbol_found(query, ReadableOnly(workspace)).deduped)
       /\ handle(query, TRUE) =>
             response' = SearchResponse("handle", "Ok",
                             handle_found(query, ReadableOnly(workspace)))
       /\ \A scores \in [SymbolNames -> SkimScores] :
             symbol(query, TRUE, scores) =>
                 response' = SearchResponse("symbol", "Ok",
                                 symbol_found(query, ReadableOnly(workspace),
                                              scores).filtered)]_response

\* A search answered over a listing whose first file cannot be read and
\* whose second has headings that match.
C22_Witness ==
    /\ response.request \in {"main_symbol", "handle", "symbol"}
    /\ response.kind = "Ok"
    /\ Len(workspace) = 2
    /\ workspace[1].file.kind = "Unreadable"
    /\ ends_with(workspace[1].path, <<".", "m", "d">>)
    /\ response.symbols # <<>>
    /\ \A k \in 1..Len(response.symbols) :
           response.symbols[k].uri = workspace[2].path

\* -------------------------------------- hover and go-to-definition
MaxRequestTokens == 3
RequestTokens == {<<"[", "[">>, <<"]", "]">>, <<"a">>, <<"|">>, <<"\n">>}
RequestTexts == {Concat(ts) : ts \in SeqsUpTo(RequestTokens, MaxRequestTokens)}

\* What a lookup of a virtual path gives (get_page_by_virtual_path of the
\* Note Index, utils::get_lpath): a failure, no page, or the page, whose
\* local path may or may not convert to a URL and whose file may or may
\* not be readable.
PageErr == [kind |-> "Err"]
NoPage == [kind |-> "None"]
Page(absolute, readable) ==
    [kind |-> "Some", absolute |-> absolute, readable |-> readable]
Pages == {PageErr, NoPage} \cup {Page(a, r) : a, r \in BOOLEAN}

\* The preview a hover shows, standing for the content of the target.
Preview == <<"p">>

\* The reply of a hover or go-to-definition handler: None, Some with the
\* virtual path found, Err with its code, or Panic when the handler panics.
RequestResponse(handler, uri, kind, code, value) ==
    [request |-> handler, uri |-> uri, kind |-> kind, code |-> code,
     value |-> value]

\* wiki_text.split('|') followed by parts[0].
first_part(wiki_text) ==
    LET pipe == find(wiki_text, <<"|">>)
    IN  IF pipe < 0 THEN wiki_text ELSE Slice(wiki_text, 0, pipe)

\* The search both Backend::hover and Backend::goto_definition of server.rs
\* make on the cached text: no text or no such line gives "None", a column
\* beyond the line makes the slice line[..character] panic, else the
\* virtual path between the nearest "[[" before and "]]" after the cursor.
wiki_link_on_line(uri, pos) ==
    IF uri \notin DOMAIN docs THEN None
    ELSE LET ls == lines(docs[uri])
         IN  IF pos.line >= Len(ls) THEN None
             ELSE LET line == ls[pos.line + 1]
                      start_idx == rfind(Slice(line, 0, pos.character), <<"[", "[">>)
                      end_idx == find(Slice(line, pos.character, Len(line)),
                                      <<"]", "]">>)
                  IN  IF pos.character > Len(line) THEN Panicked
                      ELSE IF start_idx < 0 \/ end_idx < 0 THEN None
                      ELSE Some(trim(first_part(
                               Slice(line, start_idx + 2, pos.character + end_idx))))

\* Backend::hover of server.rs; page stands for utils::read_file on the
\* virtual path, which succeeds when the page exists and can be read.
hover(uri, pos, page) ==
    LET found == wiki_link_on_line(uri, pos)
    IN  /\ position' = pos
        /\ response' =
              CASE found.kind = "Panic" ->
                     RequestResponse("hover", uri, "Panic", "", <<>>)
                [] found.kind = "None" ->
                     RequestResponse("hover", uri, "None", "", <<>>)
                [] OTHER ->
                     IF page.kind = "Some" /\ page.readable
                     THEN RequestResponse("hover", uri, "Some", "",
                                          found.virtual_link \o Preview)
                     ELSE RequestResponse("hover", uri, "None", "", <<>>)
        /\ UNCHANGED <<pc, docs>>

\* Backend::goto_definition of server.rs; page stands for utils::get_lpath.
goto_definition(uri, pos, page) ==
    LET found == wiki_link_on_line(uri, pos)
    IN  /\ position' = pos
        /\ response' =
              CASE found.kind = "Panic" ->
                     RequestResponse("goto_definition", uri, "Panic", "", <<>>)
                [] found.kind = "None" ->
                     RequestResponse("goto_definition", uri, "None", "", <<>>)
                [] OTHER ->
                     CASE page.kind = "Err" ->
                            RequestResponse("goto_definition", uri, "Err",
                                            "InternalError", <<>>)
                       [] page.kind = "Some" /\ page.absolute ->
                            RequestResponse("goto_definition", uri, "Some", "",
                                            found.virtual_link)
                       [] OTHER ->
                            RequestResponse("goto_definition", uri, "None", "", <<>>)
        /\ UNCHANGED <<pc, docs>>

\* The start of handle_hover and handle_definition: the file behind the URI
\* is read, the position is converted to an offset and the wiki-link at the
\* offset is extracted.  The variables content, offset and result record
\* the text read, the offset and the link found.
read_and_locate(pos, file) ==
    /\ position' = pos
    /\ content' = IF file.kind = "Readable" THEN file.source ELSE <<>>
    /\ offset' = IF file.kind = "Readable"
                 THEN position_to_offset(file.source, pos) ELSE -1
    /\ result' = IF file.kind = "Readable"
                 THEN extract_wikilink_at_offset(file.source,
                          position_to_offset(file.source, pos))
                 ELSE None

\* The replies both handlers give before the Note Index is asked: the
\* errors of to_file_path and read_to_string, the panic of the slice, and
\* None when no wiki-link is found; NoResponse when a link is found.
reply_before_lookup(handler, uri, pos, file) ==
    CASE file.kind = "NotAFilePath" ->
           RequestResponse(handler, uri, "Err", "InvalidParams", <<>>)
      [] file.kind = "Unreadable" ->
           RequestResponse(handler, uri, "Err", "InternalError", <<>>)
      [] OTHER ->
           LET link == extract_wikilink_at_offset(file.source,
                           position_to_offset(file.source, pos))
           IN  CASE link.kind = "Panic" ->
                      RequestResponse(handler, uri, "Panic", "", <<>>)
                 [] link.kind = "None" ->
                      RequestResponse(handler, uri, "None", "", <<>>)
                 [] OTHER -> NoResponse

\* handle_hover of handlers/hover.rs.
handle_hover(uri, pos, file, page) ==
    LET early == reply_before_lookup("handle_hover", uri, pos, file)
        link == extract_wikilink_at_offset(file.source,
                    position_to_offset(file.source, pos))
    IN  /\ read_and_locate(pos, file)
        /\ response' =
              IF early # NoResponse THEN early
              ELSE CASE page.kind = "Err" ->
                          RequestResponse("handle_hover", uri, "Err",
                                          "InternalError", <<>>)
                     [] page.kind = "Some" /\ page.readable ->
                          RequestResponse("handle_hover", uri, "Some", "",
                                          link.virtual_link \o Preview)
                     [] OTHER ->
                          RequestResponse("handle_hover", uri, "None", "", <<>>)
        /\ UNCHANGED <<pc, docs>>

\* handle_definition of handlers/definition.rs.
handle_definition(uri, pos, file, page) ==
    LET early == reply_before_lookup("handle_definition", uri, pos, file)
        link == extract_wikilink_at_offset(file.source,
                    position_to_offset(file.source, pos))
    IN  /\ read_and_locate(pos, file)
        /\ response' =
              IF early # NoResponse THEN early
              ELSE CASE page.kind = "Err" ->
                          RequestResponse("handle_definition", uri, "Err",
                                          "InternalError", <<>>)
                     [] page.kind = "Some" /\ page.absolute ->
                          RequestResponse("handle_definition", uri, "Some", "",
                                          link.virtual_link)
                     [] page.kind = "Some" ->
                          RequestResponse("handle_definition", uri, "Err",
                                          "InternalError", <<>>)
                     [] OTHER ->
                          RequestResponse("handle_definition", uri, "None", "", <<>>)
        /\ UNCHANGED <<pc, docs>>

\* One request on a document that is cached or not; the file behind its URI
\* holds the cached text, cannot be read, or the URI is no file path.
FilesBehind == {NotAFilePath, Unreadable, Readable(CachedOrEmpty)}

InitRequests ==
    /\ pc = "request"
    /\ docs \in {EmptyMap} \cup {insert(EmptyMap, CompletionUri, t) : t \in RequestTexts}
    /\ response = NoResponse /\ sent = EmptyMap
    /\ query = <<>> /\ workspace = <<>> /\ lock = 0 /\ tasks = <<>>
    /\ OutlineIdle /\ TextIdle

NextRequests ==
    \/ \E pos \in CursorPositions(CachedOrEmpty), page \in Pages :
          /\ response = NoResponse
          /\ hover(CompletionUri, pos, page)
          /\ UNCHANGED <<outline_vars, content, offset, result, sent,
                         search_vars, lock_vars>>
    \/ \E pos \in CursorPositions(CachedOrEmpty), page \in Pages :
          /\ response = NoResponse
          /\ goto_definition(CompletionUri, pos, page)
          /\ UNCHANGED <<outline_vars, content, offset, result, sent,
                         search_vars, lock_vars>>
    \/ \E pos \in CursorPositions(CachedOrEmpty), file \in FilesBehind,
          page \in Pages :
          /\ response = NoResponse
          /\ handle_hover(CompletionUri, pos, file, page)
          /\ UNCHANGED <<outline_vars, sent, search_vars, lock_vars>>
    \/ \E pos \in CursorPositions(CachedOrEmpty), file \in FilesBehind,
          page \in Pages :
          /\ response = NoResponse
          /\ handle_definition(CompletionUri, pos, file, page)
          /\ UNCHANGED <<outline_vars, sent, search_vars, lock_vars>>
    \/ \E pos \in CursorPositions(CachedOrEmpty), index \in NoteIndexes :
          /\ response = NoResponse
          /\ handle_completion(CompletionUri, pos, index)
          /\ UNCHANGED <<outline_vars, content, offset, result, sent,
                         search_vars, lock_vars>>

SpecRequests == InitRequests /\ [][NextRequests]_vars

\* The text a request was served from: the text read from the file for the
\* handlers that read the file, the cached text for the others; and
\* whether the handler had such a text.
FromFile == response.request \in {"handle_hover", "handle_definition"}
RequestText == IF FromFile THEN content ELSE docs[response.uri]
HasRequestText ==
    /\ response.request \in {"hover", "goto_definition", "handle_hover",
                              "handle_definition", "handle_completion"}
    /\ IF FromFile THEN offset >= 0 ELSE response.uri \in DOMAIN docs

\* A position outside a text: its line is past the last line, or its
\* column is past the end of its line.
OutOfRange(text, pos) ==
    \/ pos.line >= Len(lines(text))
    \/ pos.character > Len(lines(text)[pos.line + 1])

\* C23: a hover, go-to-definition or completion request with an
\* out-of-range position returns an absent result and is never propagated
\* as a failure.
C23_OutOfRangeIsAbsent ==
    (HasRequestText /\ OutOfRange(RequestText, position)) => response.kind = "None"

\* ------------------------------ the Backend of main.rs and its mutex
\* The value of lock once a handler has panicked while it held the guard:
\* from then on documents.lock().unwrap() panics.
Poisoned == -1

MainTexts ==
    {<<>>, <<"[", "[">>, <<"#", " ", "a">>, <<"a", "\n", "[", "[">>}
MainChangeLists ==
    {<<>>} \cup {<<t>> : t \in MainTexts} \cup {<<t, <<>> >> : t \in MainTexts}

PanicResponse(handler, uri) == [request |-> handler, uri |-> uri, kind |-> "Panic"]

\* Backend::did_open of main.rs.
main_did_open(uri, text) ==
    /\ IF lock = Poisoned
       THEN docs' = docs /\ response' = PanicResponse("did_open", uri) /\ UNCHANGED pc
       ELSE did_open(uri, text)
    /\ UNCHANGED lock

\* Backend::did_change of main.rs: the lock is taken only when there is a
\* content change.
main_did_change(uri, content_changes) ==
    /\ IF lock = Poisoned /\ content_changes # <<>>
       THEN docs' = docs /\ response' = PanicResponse("did_change", uri) /\ UNCHANGED pc
       ELSE did_change(uri, content_changes)
    /\ UNCHANGED lock

\* Backend::document_symbol of main.rs.
main_document_symbol(uri) ==
    /\ response' =
          IF lock = Poisoned THEN PanicResponse("documentSymbol", uri)
          ELSE IF uri \in DOMAIN docs
          THEN [request |-> "documentSymbol", uri |-> uri, kind |-> "Nested",
                symbols |-> main_parse_markdown_symbols(docs[uri])]
          ELSE [request |-> "documentSymbol", uri |-> uri, kind |-> "None",
                symbols |-> <<>>]
    /\ UNCHANGED <<pc, docs, lock>>

\* Backend::completion of main.rs with its guard: the guard taken at the
\* start lives to the end of the handler, so a panic of the handler
\* poisons the mutex.
main_completion_guarded(uri, pos, config, index) ==
    IF lock = Poisoned
    THEN /\ position' = pos
         /\ response' = CompletionResponse("main_completion", uri, "Panic", <<>>)
         /\ UNCHANGED <<pc, docs, lock>>
    ELSE /\ main_completion(uri, pos, config, index)
         /\ lock' = IF response'.kind = "Panic" THEN Poisoned ELSE lock

MainPositions == {Position(l, c) : l \in 0..2, c \in 0..3}

InitMain ==
    /\ pc = "main"
    /\ docs = EmptyMap /\ response = NoResponse /\ sent = EmptyMap
    /\ query = <<>> /\ workspace = <<>> /\ lock = 0 /\ tasks = <<>>
    /\ OutlineIdle /\ TextIdle

NextMain ==
    \/ \E text \in MainTexts :
          /\ main_did_open(CompletionUri, text)
          /\ UNCHANGED <<outline_vars, text_vars, sent, search_vars, tasks>>
    \/ \E content_changes \in MainChangeLists :
          /\ main_did_change(CompletionUri, content_changes)
          /\ UNCHANGED <<outline_vars, text_vars, sent, search_vars, tasks>>
    \/ /\ main_document_symbol(CompletionUri)
       /\ UNCHANGED <<outline_vars, text_vars, sent, search_vars, tasks>>
    \/ \E pos \in MainPositions, config \in Configs, index \in NoteIndexes :
          /\ main_completion_guarded(CompletionUri, pos, config, index)
          /\ UNCHANGED <<outline_vars, content, offset, result, sent,
                         search_vars, tasks>>

SpecMain == InitMain /\ [][NextMain]_vars

\* C24: no request panics on any document text and any position, so after
\* every sequence of requests each later open, change and outline request
\* completes normally and the document-cache lock is never poisoned.
C24_NoPanicNoPoison ==
    /\ lock # Poisoned
    /\ response.request # "none" => response.kind # "Panic"

\* ------------------------------------------------ collaborator failures
\* The lookup of the page fails: the Note Index reports an error, or the
\* file of the page cannot be read.
LookupFails(page) == page.kind = "Err" \/ (page.kind = "Some" /\ ~page.readable)

\* C25: in a single-document operation a Note Index read error or an
\* unreadable file is returned to the caller as a failure, never as an
\* empty or absent result.  Stated of every step of a handler that reaches
\* the collaborator: the reply of the step is Err.
C25_CollaboratorFailureIsErr ==
    [][/\ \A page \in Pages :
             (/\ response'.request = "hover"
              /\ hover(CompletionUri, position', page)
              /\ wiki_link_on_line(CompletionUri, position').kind = "Some"
              /\ LookupFails(page)) => response'.kind = "Err"
       /\ \A page \in Pages :
             (/\ response'.request = "goto_definition"
              /\ goto_definition(CompletionUri, position', page)
              /\ wiki_link_on_line(CompletionUri, position').kind = "Some"
              /\ page.kind = "Err") => response'.kind = "Err"
       /\ \A file \in FilesBehind, page \in Pages :
             (/\ response'.request = "handle_hover"
              /\ handle_hover(CompletionUri, position', file, page)
              /\ \/ file.kind = "Unreadable"
                 \/ /\ reply_before_lookup("handle_hover", CompletionUri,
                                            position', file) = NoResponse
                    /\ LookupFails(page)) => response'.kind = "Err"
       /\ \A file \in FilesBehind, page \in Pages :
             (/\ response'.request = "handle_definition"
              /\ handle_definition(CompletionUri, position', file, page)
              /\ \/ file.kind = "Unreadable"
                 \/ /\ reply_before_lookup("handle_definition", CompletionUri,
                                            position', file) = NoResponse
                    /\ page.kind = "Err") => response'.kind = "Err"
       /\ (/\ response'.request = "handle_completion"
           /\ handle_completion(CompletionUri, position', IndexErr)
           /\ response'.kind # "None") => response'.kind = "Err"]_response

\* ------------------------------------ MarkdownSymbolExtractor alone
MaxExtractLines == 3
ExtractLines ==
    {Heading(1, <<"a">>), Heading(2, <<"b">>), Heading(4, <<"c">>),
     Heading(3, <<>>), Paragraph(<<"t">>)}
ExtractDocs == SeqsUpTo(ExtractLines, MaxExtractLines)
FilePaths == {<<"/", "x", ".", "m", "d">>, <<"/", "y", ".", "m", "d">>}

InitExtract ==
    /\ pc = "content"
    /\ doc \in ExtractDocs
    /\ events = <<>> /\ symbols = <<>> /\ current_line = 0
    /\ header_stack = <<>> /\ in_heading = FALSE
    /\ TextIdle /\ ServerIdle

\* A call of MarkdownSymbolExtractor::extract_symbols on the content and a
\* file path; result records the path and the symbols returned.
ExtractSymbols ==
    /\ pc = "content"
    /\ \E file_path \in FilePaths :
          result' = [file_path |-> file_path,
                     symbols |-> extract_symbols(doc, file_path)]
    /\ pc' = "extracted"
    /\ UNCHANGED <<outline_vars, content, offset, position, server_vars,
                   search_vars, lock_vars>>

NextExtract == ExtractSymbols

SpecExtract == InitExtract /\ [][NextExtract]_vars

\* The lines of the content that are headings, in document order.
HeadingLinesOf(d) == SelectIndices(Len(d), {k \in 1..Len(d) : d[k].kind = "heading"})

\* C26: MarkdownSymbolExtractor::extract_symbols returns exactly one symbol
\* per heading of the content, in document order and as a flat list
\* whatever the heading levels, each symbol carrying the URI of the given
\* file.
C26_OneSymbolPerHeading ==
    pc = "extracted" =>
        LET hs == HeadingLinesOf(doc)
        IN  /\ Len(result.symbols) = Len(hs)
            /\ \A k \in 1..Len(hs) :
                   /\ result.symbols[k].name = doc[hs[k]].text
                   /\ result.symbols[k].kind = SymbolKind(doc[hs[k]].level)
                   /\ result.symbols[k].start.line = hs[k] - 1
                   /\ result.symbols[k].uri = result.file_path
                   /\ "children" \notin DOMAIN result.symbols[k]

\* An extraction from a content whose headings go from level 1 to level 4
\* and back to level 2.
C26_Witness ==
    /\ pc = "extracted"
    /\ Len(doc) = 3
    /\ doc[1].level = 1 /\ doc[2].level = 4 /\ doc[3].level = 2
    /\ Len(result.symbols) = 3

\* ------------------------------------------------------------ formatter
MaxFormatLen == 4
FormatChars == {"#", " ", "a", "\n"}
FormatTexts == SeqsUpTo(FormatChars, MaxFormatLen)

\* "#".repeat(count)
repeat_hash(count) == [k \in 1..count |-> "#"]

\* formatted_line of format_markdown for one line of the input.
formatted_line(line) ==
    LET trimmed == trim_end(line)
    IN  IF trimmed # <<>> /\ Head(trimmed) = "#"
        THEN LET count == heading_chars(trimmed)
                 rest == Slice(trimmed, count, Len(trimmed))
             IN  IF Len(trimmed) > count
                 THEN IF Head(rest) # " "
                      THEN repeat_hash(count) \o <<" ">> \o trim_start(rest)
                      ELSE repeat_hash(count) \o <<" ">> \o trim(rest)
                 ELSE repeat_hash(count)
        ELSE trim_start(trimmed)

\* The for loop of format_markdown over input.lines(): the output lines.
RECURSIVE format_markdown_loop(_, _)
format_markdown_loop(ls, prev_blank) ==
    IF ls = <<>> THEN <<>>
    ELSE LET formatted == formatted_line(Head(ls))
             is_blank == trim(formatted) = <<>>
         IN  IF ~is_blank
             THEN IF Head(formatted) = "#"
                  THEN <<formatted, <<>> >> \o format_markdown_loop(Tail(ls), TRUE)
                  ELSE <<formatted>> \o format_markdown_loop(Tail(ls), is_blank)
             ELSE (IF ~prev_blank THEN << <<>> >> ELSE <<>>)
                      \o format_markdown_loop(Tail(ls), is_blank)

format_markdown(input) ==
    LET joined == JoinLines(format_markdown_loop(lines(input), FALSE))
    IN  IF ends_with(joined, <<"\n">>) THEN joined ELSE joined \o <<"\n">>

InitFormat ==
    /\ pc = "input"
    /\ content \in FormatTexts
    /\ offset = -1 /\ position = NoValue /\ result = NoValue
    /\ OutlineIdle /\ ServerIdle

FormatMarkdown ==
    /\ pc = "input"
    /\ result' = format_markdown(content)
    /\ pc' = "formatted"
    /\ UNCHANGED <<outline_vars, content, offset, position, server_vars,
                   search_vars, lock_vars>>

NextFormat == FormatMarkdown

SpecFormat == InitFormat /\ [][NextFormat]_vars

\* C27: in the output of format_markdown every line that starts with '#'
\* has its run of '#' markers followed by exactly one space and then the
\* heading text.
C27_OneSpaceAfterMarkers ==
    pc = "formatted" =>
        \A k \in 1..Len(lines(result)) :
            LET line == lines(result)[k]
                count == heading_chars(line)
            IN  count > 0 =>
                    /\ Len(line) >= count + 2
                    /\ line[count + 1] = " "
                    /\ line[count + 2] # " "

\* ------------------------------------------- outline builder, nodes
\* C28: the outline builder pushes and pops each heading exactly once: when
\* the stream ends the stack is empty and the forest holds exactly one node
\* per input heading, in document order, none lost or duplicated, and no
\* synthetic node for a skipped level: levels 1, 3 give one level-1 node
\* with one level-3 child.
C28_OneNodePerHeading ==
    pc = "returned" =>
        LET flat == Flat(symbols)
            headings == HeadingsOf(doc)
        IN  /\ header_stack = <<>>
            /\ Len(flat) = Len(headings)
            /\ \A k \in 1..Len(headings) : flat[k].name = <<headings[k].text>>
            /\ [k \in 1..Len(headings) |-> headings[k].level] = <<1, 3>> =>
                   /\ Len(symbols) = 1
                   /\ Len(symbols[1].children) = 1
                   /\ symbols[1].children[1].children = <<>>

\* The outline of a document whose headings have the levels 1, 3.
C28_Witness ==
    /\ pc = "returned"
    /\ [k \in 1..Len(HeadingsOf(doc)) |-> HeadingsOf(doc)[k].level] = <<1, 3>>
    /\ Len(symbols) = 1
    /\ Len(symbols[1].children) = 1

\* --------------------------- every handler on one document cache
FrameTexts == {<<"[", "[", "a", "]", "]">>, <<"#", " ", "a">>}
FrameChangeLists ==
    {<<>>} \cup {<<t>> : t \in FrameTexts} \cup {<<t, <<>> >> : t \in FrameTexts}
FramePositions == {Position(0, 2), Position(1, 0)}
FrameListing == <<Entry(<<"1", ".", "m", "d">>, TRUE, HeadingMd)>>

InitBackend ==
    /\ pc = "backend"
    /\ docs = EmptyMap /\ response = NoResponse /\ sent = EmptyMap
    /\ query = <<>> /\ workspace = FrameListing
    /\ lock = 0 /\ tasks = <<>>
    /\ OutlineIdle /\ TextIdle

NextBackend ==
    \/ \E uri \in Uris, text \in FrameTexts :
          /\ did_open(uri, text)
          /\ UNCHANGED <<outline_vars, text_vars, sent, search_vars, lock_vars>>
    \/ \E uri \in Uris, content_changes \in FrameChangeLists :
          /\ did_change(uri, content_changes)
          /\ UNCHANGED <<outline_vars, text_vars, sent, search_vars, lock_vars>>
    \/ \E uri \in Uris :
          /\ did_close(uri)
          /\ UNCHANGED <<outline_vars, text_vars, sent, search_vars, lock_vars>>
    \/ \E uri \in Uris :
          /\ document_symbol(uri)
          /\ UNCHANGED <<outline_vars, text_vars, sent, search_vars, lock_vars>>
    \/ \E uri \in Uris, pos \in FramePositions, page \in Pages :
          /\ hover(uri, pos, page)
          /\ UNCHANGED <<outline_vars, content, offset, result, sent,
                         search_vars, lock_vars>>
    \/ \E uri \in Uris, pos \in FramePositions, page \in Pages :
          /\ goto_definition(uri, pos, page)
          /\ UNCHANGED <<outline_vars, content, offset, result, sent,
                         search_vars, lock_vars>>
    \/ \E uri \in Uris, pos \in FramePositions, index \in NoteIndexes,
          scores \in [1..2 -> SkimScores] :
          /\ completion(uri, pos, index, scores)
          /\ UNCHANGED <<outline_vars, content, offset, result, sent,
                         search_vars, lock_vars>>
    \/ \E uri \in Uris, pos \in FramePositions, index \in NoteIndexes :
          /\ handle_completion(uri, pos, index)
          /\ UNCHANGED <<outline_vars, content, offset, result, sent,
                         search_vars, lock_vars>>
    \/ \E paths_ok \in BOOLEAN, scores \in [SymbolNames -> SkimScores] :
          /\ symbol(query, paths_ok, scores)
          /\ UNCHANGED <<outline_vars, content, offset, position, docs, sent,
                         lock_vars>>

SpecBackend == InitBackend /\ [][NextBackend]_vars

\* The cache entry of a uri is the same after the step as before it.
EntryUnchanged(uri) ==
    /\ (uri \in DOMAIN docs') = (uri \in DOMAIN docs)
    /\ uri \in DOMAIN docs => docs'[uri] = docs[uri]

\* C29: outline, hover, go-to-definition, completion and workspace-symbol
\* requests leave the document cache unchanged, and an open or change for
\* one uri leaves the cached text of every other uri unchanged.
C29_CacheFrame ==
    [][/\ response'.request # "none" => docs' = docs
       /\ \A uri \in Uris, text \in FrameTexts :
             did_open(uri, text) => \A other \in Uris \ {uri} : EntryUnchanged(other)
       /\ \A uri \in Uris, content_changes \in FrameChangeLists :
             did_change(uri, content_changes) =>
                 \A other \in Uris \ {uri} : EntryUnchanged(other)]_<<docs, response>>

\* A completion answered with items while both uris are cached with
\* different texts.
C29_Witness ==
    /\ DOMAIN docs = Uris
    /\ docs["u1"] # docs["u2"]
    /\ response.request \in {"completion", "handle_completion", "hover"}
    /\ response.kind \in {"Array", "Some"}

\* ------------------------------------------------ change notifications
ChangeTexts == {<<>>, <<"a">>, <<"b">>}
ContentChanges ==
    {<<>>} \cup {<<t>> : t \in ChangeTexts}
           \cup {<<t, u>> : t, u \in ChangeTexts}
CachedMaps ==
    UNION {[open -> ChangeTexts] : open \in SUBSET Uris}

\* The notification a step delivered, kept in result.
Notification(handler, uri, content_changes) ==
    [handler |-> handler, uri |-> uri, content_changes |-> content_changes]

InitChanges ==
    /\ pc = "cache"
    /\ docs \in CachedMaps
    /\ response = NoResponse /\ sent = EmptyMap
    /\ query = <<>> /\ workspace = <<>> /\ lock = 0 /\ tasks = <<>>
    /\ content = <<>> /\ offset = -1 /\ position = NoValue
    /\ result = Notification("none", "none", <<>>)
    /\ OutlineIdle

NextChanges ==
    \/ \E uri \in Uris, content_changes \in ContentChanges :
          /\ did_change(uri, content_changes)
          /\ result' = Notification("did_change", uri, content_changes)
          /\ UNCHANGED <<outline_vars, content, offset, position, sent,
                         search_vars, lock_vars>>
    \/ \E uri \in Uris, content_changes \in ContentChanges :
          /\ main_did_change(uri, content_changes)
          /\ result' = Notification("main_did_change", uri, content_changes)
          /\ UNCHANGED <<outline_vars, content, offset, position, sent,
                         search_vars, tasks>>

SpecChanges == InitChanges /\ [][NextChanges]_vars

\* C30: a change notification stores as the cached text only the text of
\* its first content change: further content changes of the notification
\* are ignored, and a notification with no content change leaves the cache
\* unchanged and creates no entry.
C30_FirstChangeOnly ==
    [][LET uri == result'.uri
           content_changes == result'.content_changes
       IN  IF content_changes = <<>> THEN docs' = docs
           ELSE /\ DOMAIN docs' = DOMAIN docs \cup {uri}
                /\ docs'[uri] = content_changes[1]]_<<docs, result>>

\* A notification with two different content changes has been delivered,
\* and the cache holds the text of the first.
C30_Witness ==
    /\ result.handler \in {"did_change", "main_did_change"}
    /\ Len(result.content_changes) = 2
    /\ result.content_changes[1] # result.content_changes[2]
    /\ docs[result.uri] = result.content_changes[1]
====
